---- MODULE Spec2Model ----
(***************************************************************************)
(* The T-maze grid world of main_dqn.py (class TMaze): grid construction,  *)
(* observation generation with the oracle hint ("arrow") and the grey      *)
(* decoy boxes, and the four-direction step function.                      *)
(* Further parts: the training programs, main.py (rollout, advantage       *)
(* estimation, minibatch update, learning-rate schedule) and main_dqn.py   *)
(* (the loop that fills the replay buffer), each under a specification of  *)
(* its own that keeps the variables of the other parts idle.               *)
(*                                                                         *)
(* Numbers.  Rewards are the rationals 1 - 0.9*(k/max_steps); the model    *)
(* keeps them exactly, as numerators over the denominator 10*max_steps     *)
(* (RewardDen).  Entries of the hint vector are kept as the integers       *)
(* -1, 0, 1 standing for -1.0, 0.0, 1.0; the noise of                      *)
(* np_random.uniform(-1, 1) is drawn from NoiseVectors, whose entries lie  *)
(* in the half-open range [-1, 1).                                         *)
(***************************************************************************)
EXTENDS Integers, Sequences, FiniteSets, TLC

VARIABLES
    size,            \* constructor argument `size` (grid_size, width = height)
    max_steps,       \* self.max_steps
    grid,            \* self.grid.grid: the flat cell list, cell (i, j) at j * width + i
    agent_pos,       \* self.agent_pos
    agent_dir,       \* self.agent_dir
    step_count,      \* self.step_count
    num_episodes,    \* self.num_episodes
    goal_position,   \* self.goal_position
    lava_position,   \* self.lava_position
    arrow_q_values,  \* self.arrow_q_values
    obs_arrow,       \* obs["arrow"] of the observation returned last
    reward,          \* reward returned by the episode's last step (numerator over
                     \* RewardDen; 0 before the first step)
    terminated,      \* terminated flag returned by the episode's last step
    truncated,       \* truncated flag returned by the episode's last step
    raised,          \* exception raised by the last call ("none" when it returned)
    twin,            \* a second environment, reset and stepped together with the
                     \* first with the same actions and draws but the other goal
                     \* choice (SpecTwin only)
    \* the training program of main.py (its __main__ block)
    args,            \* args: the parsed Args with the fields filled at run time
    pc,              \* position of the program in its __main__ block
    writer_failed,   \* a call of writer.add_scalar has raised
    lr,              \* optimizer.param_groups[0]["lr"]
    envs,            \* envs: the environment made by make_env (main.py's TMaze)
    iteration,       \* iteration
    step,            \* step: the rollout slot being filled
    global_step,     \* global_step
    next_done,       \* next_done (0.0 or 1.0, kept as 0 or 1)
    last_gate,       \* agent._last_gate (0 or 1)
    rewards,         \* rewards[0 .. num_steps-1], kept at indices 1 .. num_steps
    dones,           \* dones[0 .. num_steps-1], kept at indices 1 .. num_steps
    values,          \* values[0 .. num_steps-1], kept at indices 1 .. num_steps
    next_value,      \* next_value: the bootstrap value
    t,               \* t of the advantage pass
    lastgaelam,      \* lastgaelam
    advantages,      \* advantages[0 .. num_steps-1], kept at indices 1 .. num_steps
    returns,         \* returns[0 .. num_steps-1], kept at indices 1 .. num_steps
    b_inds,          \* b_inds: the (shuffled) index array of the batch
    epoch,           \* epoch
    start,           \* start
    mb_inds,         \* mb_inds of the minibatch applied last
    approx_kl,       \* approx_kl of the minibatch applied last
    epoch_mb_inds,   \* the mb_inds applied so far in the current epoch, in order
    arrows,          \* arrows[0 .. num_steps-1], kept at indices 1 .. num_steps
    full_obs_arrow,  \* full_obs["arrow"]: the hint of the observation returned last
    mb_arrow,        \* the arrow argument of the last minibatch re-evaluation
    \* the training program of main_dqn.py (its __main__ block, SpecDqn only)
    dqn,             \* args and the variables of the loop: obs, next_obs, rewards,
                     \* terminations, truncations, global_step, and the position
    rb,              \* the transition handed to rb.add last
    epsilon,         \* epsilon of the pass
    q_state,         \* q_state: step, params and target_params (one weight)
    \* the random generator of the environment of main_dqn.py (SpecSeed only)
    np_random,       \* self.np_random: the state of the generator
    seed_resets      \* per seed, what each reset(seed=seed) so far has produced

\* the state of the environment of main_dqn.py
envVars == <<size, max_steps, grid, agent_pos, agent_dir, step_count, num_episodes,
             goal_position, lava_position, arrow_q_values, obs_arrow, reward,
             terminated, truncated, raised>>

\* the state of the training program of main.py: the arguments and the
\* position, the rollout loop, the advantage pass
progVars == <<args, pc, writer_failed, lr>>
loopVars == <<envs, iteration, step, global_step, next_done, last_gate, rewards,
              dones, values>>
gaeVars == <<next_value, t, lastgaelam, advantages, returns>>
updateVars == <<b_inds, epoch, start, mb_inds, approx_kl, epoch_mb_inds>>
hintVars == <<arrows, full_obs_arrow, mb_arrow>>
mainVars == <<progVars, loopVars, gaeVars, updateVars, hintVars>>

\* the generator and the record of the seeded resets
seedVars == <<np_random, seed_resets>>

\* the state of the training program of main_dqn.py
dqnVars == <<dqn, rb, epsilon, q_state>>

vars == <<envVars, twin, dqnVars, mainVars, seedVars>>

----------------------------------------------------------------------------
(* Bounds of the exploration *)

\* max_steps passed to the constructor is size + StepSlack
StepSlack == 1

\* grid sizes: the constructor default (9) and the registered one (11)
Sizes == {9, 11}

\* the other `size` arguments handed to the constructor (SpecSizes)
TrialSizes == 1 .. 8

\* draws of np_random.uniform(low=-1.0, high=1.0, size=4).  The environment
\* never reads the draw, it only returns it, so one value is explored
NoiseVectors == {<<0 - 1, 0, 0 - 1, 0>>}

\* action arguments outside the enumerated set
InvalidActions == {4, 0 - 1}

----------------------------------------------------------------------------
(* class Actions(IntEnum) *)

left == 0
forward == 1
right == 2
backward == 3

Actions == {left, forward, right, backward}

\* self.action_space = gym.spaces.Discrete(4)
action_space_n == Cardinality(Actions)

\* self.path_episode_threshold = 2000
path_episode_threshold == 2000

----------------------------------------------------------------------------
(* Grid and world objects (kinds of minigrid WorldObj) *)

\* None, Wall(), Goal(), Lava(), Goal("grey")
Kinds == {"none", "wall", "goal", "lava", "grey_goal"}

\* WorldObj.type
ObjType(k) == IF k = "grey_goal" THEN "goal" ELSE k

\* WorldObj.can_overlap(): Goal and Lava can be overlapped, Wall cannot
can_overlap(k) == k \in {"goal", "lava", "grey_goal"}

Cells(sz) == (0 .. sz - 1) \X (0 .. sz - 1)

\* Grid.get / Grid.set address cell (i, j) at self.grid[j * self.width + i]
CellIndex(c, width) == c[2] * width + c[1]


\* value standing for None / (-1, -1) of a position not set yet
NoPos == <<0 - 1, 0 - 1>>

\* Grid(width, height): every cell None
EmptyGrid(sz) == [n \in 0 .. sz * sz - 1 |-> "none"]

\* Grid.set(i, j, v) / MiniGridEnv.put_obj(obj, i, j)
put_obj(g, k, c, width) == [g EXCEPT ![CellIndex(c, width)] = k]

\* Grid.horz_wall(x, y, length)
horz_wall(g, x, y, length, width) ==
    [n \in DOMAIN g |->
        IF \E i \in x .. x + length - 1 : n = CellIndex(<<i, y>>, width)
        THEN "wall" ELSE g[n]]

\* Grid.vert_wall(x, y, length)
vert_wall(g, x, y, length, width) ==
    [n \in DOMAIN g |->
        IF \E j \in y .. y + length - 1 : n = CellIndex(<<x, j>>, width)
        THEN "wall" ELSE g[n]]

\* Grid.wall_rect(x, y, w, h)
wall_rect(g, x, y, w, h, width) ==
    vert_wall(vert_wall(horz_wall(horz_wall(g, x, y, w, width),
                                  x, y + h - 1, w, width),
                        x, y, h, width), x + w - 1, y, h, width)

----------------------------------------------------------------------------
(* TMaze.__init__ *)

\* max_steps handed to MiniGridEnv: the argument, or 2 * size**2 for None (0 here)
InitMaxSteps(sz, arg) == IF arg = 0 THEN 2 * sz * sz ELSE arg

\* the max_steps arguments explored for a size
MaxStepsArgs(sz) == {sz + StepSlack}

----------------------------------------------------------------------------
(* TMaze._gen_grid *)

\* the walls: surrounding rectangle, the two corridor walls, the top row's floor
GenWalls(width, height) ==
    LET g0 == EmptyGrid(width)
        g1 == wall_rect(g0, 0, 0, width, height, width)
        g2 == vert_wall(g1, width \div 2 - 1, 2, height - 3, width)
        g3 == vert_wall(g2, width \div 2 + 1, 2, height - 3, width)
        g4 == horz_wall(g3, 0, 0, width, width)
        g5 == horz_wall(g4, 0, 2, width \div 2, width)
    IN  horz_wall(g5, width \div 2 + 1, 2, width \div 2, width)

\* the walls of each explored size, built once
WallsOf == [sz \in Sizes \cup TrialSizes |-> GenWalls(sz, sz)]

\* Grid.get(i, j)
grid_get(g, c, width) == g[CellIndex(c, width)]

\* a slip of _gen_grid: the agent placed half-way up the corridor
StartPos_mid_corridor(width, height) == <<width \div 2, height \div 2>>

\* self.agent_pos = (width // 2, height - 2)
StartPos(width, height) == <<width \div 2, height - 2>>

\* self.agent_dir = 3
StartDir == 3

\* goal_positions = [(1, 1), (width - 2, 1)]  (a Python list, indexed from 0)
goal_positions(width) == << <<1, 1>>, <<width - 2, 1>> >>

\* goal_choice = self.np_random.integers(2)
GoalChoices == {0, 1}

\* a slip of _gen_grid: the lava is put on the corner chosen for the goal
lava_choice_same(goal_choice) == goal_choice

\* lava_choice = 1 - goal_choice
lava_choice(goal_choice) == 1 - goal_choice

\* self.goal_position = goal_positions[goal_choice]
GoalPosition(width, goal_choice) == goal_positions(width)[goal_choice + 1]

\* self.lava_position = goal_positions[lava_choice]
LavaPosition(width, goal_choice) == goal_positions(width)[lava_choice(goal_choice) + 1]

\* int(np.array_equal(self.goal_position, np.array((width - 2, 1))))
goal_is_right(goal_pos, width) == IF goal_pos = <<width - 2, 1>> THEN 1 ELSE 0

\* a slip of _gen_grid: the entry is set at the index of the action toward
\* the goal (left = 0, right = 2) instead of at goal_is_right
ArrowQValues_action_index(goal_pos, width) ==
    [i \in 1 .. action_space_n |->
        IF i = (IF goal_is_right(goal_pos, width) = 1 THEN right ELSE left) + 1
        THEN 1 ELSE 0]

\* arrow_q_values = zeros(n); arrow_q_values[goal_is_right] = 1.0  (indexed from 0)
ArrowQValues(goal_pos, width) ==
    [i \in 1 .. action_space_n |->
        IF i = goal_is_right(goal_pos, width) + 1 THEN 1 ELSE 0]

----------------------------------------------------------------------------
(* TMaze.gen_obs *)

left_box(width, height) == <<(width * 3) \div 4 - 1, (height * 2) \div 3 - 1>>
right_box(width, height) == <<(width * 3) \div 4 + 1, (height * 2) \div 3 - 1>>
up_box(width, height) == <<(width * 3) \div 4, (height * 2) \div 3 - 2>>
down_box(width, height) == <<(width * 3) \div 4, (height * 2) \div 3>>

\* box_locations = [left_box, right_box, up_box, down_box]
box_locations(width, height) ==
    <<left_box(width, height), right_box(width, height),
      up_box(width, height), down_box(width, height)>>

BoxCells(width, height) ==
    {box_locations(width, height)[i] : i \in 1 .. 4}

\* the grid left by _gen_grid: walls, then put_obj(Goal()), put_obj(Lava())
GenGrid(width, height, goal_choice) ==
    put_obj(put_obj(WallsOf[width],
                    "goal", GoalPosition(width, goal_choice), width),
            "lava", LavaPosition(width, goal_choice), width)


\* a slip of gen_obs: the candidates are not cleared
ClearBoxes_left_out(g, width, height) == g

\* for box in box_locations: self.grid.set(box[0], box[1], None)
ClearBoxes(g, width, height) ==
    [g EXCEPT ![CellIndex(left_box(width, height), width)] = "none",
              ![CellIndex(right_box(width, height), width)] = "none",
              ![CellIndex(up_box(width, height), width)] = "none",
              ![CellIndex(down_box(width, height), width)] = "none"]

\* a slip of gen_obs: the two sides are exchanged
BoxTarget_sides_exchanged(pos, goal_pos, width, height) ==
    IF pos[2] = 1
    THEN IF goal_is_right(goal_pos, width) = 1
         THEN left_box(width, height) ELSE right_box(width, height)
    ELSE up_box(width, height)

\* w, h = (right_box if goal_is_right else left_box) if agent_pos[1] == 1 else up_box
BoxTarget(pos, goal_pos, width, height) ==
    IF pos[2] = 1
    THEN IF goal_is_right(goal_pos, width) = 1
         THEN right_box(width, height) ELSE left_box(width, height)
    ELSE up_box(width, height)

\* a slip of gen_obs: >= for >
PastThreshold_inclusive(episodes) == episodes >= path_episode_threshold

\* if self.num_episodes > self.path_episode_threshold
PastThreshold(episodes) == episodes > path_episode_threshold

\* the outcomes of the four tests np_random.random() < 0.5 of one observation:
\* the indices of box_locations that receive the box (no draw past the threshold)
BoxDraws(episodes) == IF PastThreshold(episodes) THEN {{}} ELSE SUBSET (1 .. 4)

\* the placement of the grey box(es) after the candidates were cleared
PlaceBoxes(g, pos, goal_pos, episodes, width, height, draws) ==
    IF PastThreshold(episodes)
    THEN put_obj(g, "grey_goal", BoxTarget(pos, goal_pos, width, height), width)
    ELSE [g EXCEPT
            ![CellIndex(left_box(width, height), width)] =
                IF 1 \in draws THEN "grey_goal" ELSE @,
            ![CellIndex(right_box(width, height), width)] =
                IF 2 \in draws THEN "grey_goal" ELSE @,
            ![CellIndex(up_box(width, height), width)] =
                IF 3 \in draws THEN "grey_goal" ELSE @,
            ![CellIndex(down_box(width, height), width)] =
                IF 4 \in draws THEN "grey_goal" ELSE @]

\* the grid after gen_obs
GenObsGrid(g, pos, goal_pos, episodes, width, height, draws) ==
    PlaceBoxes(ClearBoxes(g, width, height), pos, goal_pos, episodes,
               width, height, draws)

\* a slip of gen_obs: the column is not tested, the whole top row reveals the hint
AtDecisionCell_any_column(pos, height) == pos[2] = 1

\* agent_pos[0] == (self.height - 1) // 2 and agent_pos[1] == 1
AtDecisionCell(pos, height) == pos[1] = (height - 1) \div 2 /\ pos[2] = 1

\* obs["arrow"]: the noise, replaced by arrow_q_values on the decision cell
GenObsArrow(pos, height, aqv, noise) ==
    IF AtDecisionCell(pos, height) THEN aqv ELSE noise

----------------------------------------------------------------------------
(* TMaze.step *)

\* a slip of step: the offsets of left and right exchanged
fwd_pos_sides_exchanged(pos, action) ==
    IF action = left THEN <<pos[1] + 1, pos[2]>>
    ELSE IF action = right THEN <<pos[1] - 1, pos[2]>>
    ELSE IF action = forward THEN <<pos[1], pos[2] - 1>>
    ELSE <<pos[1], pos[2] + 1>>

\* fwd_pos of the four movement branches
fwd_pos(pos, action) ==
    IF action = left THEN <<pos[1] - 1, pos[2]>>
    ELSE IF action = right THEN <<pos[1] + 1, pos[2]>>
    ELSE IF action = forward THEN <<pos[1], pos[2] - 1>>
    ELSE <<pos[1], pos[2] + 1>>

\* a slip of step: the move is not conditioned on the cell
Traversable_always(cell) == TRUE

\* if fwd_cell is None or fwd_cell.can_overlap(): self.agent_pos = tuple(fwd_pos)
Traversable(cell) == cell = "none" \/ can_overlap(cell)

StepPos(g, pos, action, width) ==
    IF Traversable(grid_get(g, fwd_pos(pos, action), width))
    THEN fwd_pos(pos, action) ELSE pos

\* MiniGridEnv._reward(): 1 - 0.9 * (step_count / max_steps), over RewardDen
RewardDen(m) == 10 * m

\* a slip of step: the reward is computed before the counter is incremented
_reward_before_increment(k, m) == 10 * m - 9 * (k - 1)

_reward(k, m) == 10 * m - 9 * k

\* reward = self._reward() if fwd_cell is a goal, else the initial 0
StepReward(cell, k, m) ==
    IF cell # "none" /\ ObjType(cell) = "goal" THEN _reward(k, m) ELSE 0

\* a slip of step: the lava test is left out
StepTerminated_goal_only(cell) == cell # "none" /\ ObjType(cell) = "goal"

\* terminated = True if fwd_cell is a goal or lava
StepTerminated(cell) ==
    cell # "none" /\ (ObjType(cell) = "goal" \/ ObjType(cell) = "lava")

\* if self.step_count >= self.max_steps: truncated = True
StepTruncated(k, m) == k >= m

\* the exception an action outside the four movement branches ends in:
\* `self.actions.done` is looked up on class Actions, which has no member done
UnknownActionError == "AttributeError"

----------------------------------------------------------------------------
(* One environment: construction, reset, step *)

\* the lockstep environment is not driven under Spec
NoTwin == [on |-> FALSE]

\* the training program of main_dqn.py is not run, except under SpecDqn
DqnIdle ==
    /\ dqn = <<>>
    /\ rb = <<>>
    /\ epsilon = <<>>
    /\ q_state = <<>>

\* the draws of the generator are inputs of the actions and its state is not
\* kept, except under SpecSeed
SeedIdle ==
    /\ np_random = 0
    /\ seed_resets = <<>>

\* the advantage pass has not run
GaeIdle ==
    /\ next_value = <<>>
    /\ t = 0
    /\ lastgaelam = <<>>
    /\ advantages = <<>>
    /\ returns = <<>>

\* the optimisation has not run
UpdateIdle ==
    /\ b_inds = <<>>
    /\ epoch = 0
    /\ start = 0
    /\ mb_inds = <<>>
    /\ approx_kl = 0
    /\ epoch_mb_inds = <<>>

\* value standing for a hint not passed yet; hints are kept as the integers
\* 0 and 1 standing for 0.0 and 1.0
NoHint == 0 - 1

\* no observation has been returned and no minibatch re-evaluated
HintIdle ==
    /\ arrows = <<>>
    /\ full_obs_arrow = NoHint
    /\ mb_arrow = NoHint

\* the training program of main.py is not run under Spec and SpecTwin
MainIdle ==
    /\ args = <<>>
    /\ pc = "idle"
    /\ writer_failed = FALSE
    /\ lr = <<>>
    /\ envs = <<>>
    /\ iteration = 0
    /\ step = 0
    /\ global_step = 0
    /\ next_done = 0
    /\ last_gate = 0
    /\ rewards = <<>>
    /\ dones = <<>>
    /\ values = <<>>
    /\ GaeIdle
    /\ UpdateIdle
    /\ HintIdle

\* after TMaze(size, max_steps): no episode yet, the grid empty, no pose
Init ==
    /\ size \in Sizes
    /\ \E arg \in MaxStepsArgs(size) : max_steps = InitMaxSteps(size, arg)
    /\ grid = EmptyGrid(size)
    /\ agent_pos = NoPos
    /\ agent_dir = 0 - 1
    /\ step_count = 0
    /\ num_episodes = 0
    /\ goal_position = NoPos
    /\ lava_position = NoPos
    /\ arrow_q_values = [i \in 1 .. action_space_n |-> 0]
    /\ obs_arrow = [i \in 1 .. action_space_n |-> 0]
    /\ reward = 0
    /\ terminated = FALSE
    /\ truncated = FALSE
    /\ raised = "none"
    /\ twin = NoTwin
    /\ DqnIdle
    /\ MainIdle
    /\ SeedIdle

\* reset(): the episode counter becomes `episodes`, then MiniGridEnv.reset
\* runs _gen_grid, zeroes the step counter and returns gen_obs()
ResetTo(episodes, goal_choice, draws, noise) ==
    /\ num_episodes' = episodes
    /\ goal_position' = GoalPosition(size, goal_choice)
    /\ lava_position' = LavaPosition(size, goal_choice)
    /\ arrow_q_values' = ArrowQValues(goal_position', size)
    /\ agent_pos' = StartPos(size, size)
    /\ agent_dir' = StartDir
    /\ step_count' = 0
    /\ grid' = GenObsGrid(GenGrid(size, size, goal_choice), agent_pos',
                          goal_position', episodes, size, size, draws)
    /\ obs_arrow' = GenObsArrow(agent_pos', size, arrow_q_values', noise)
    /\ reward' = 0
    /\ terminated' = FALSE
    /\ truncated' = FALSE
    /\ raised' = "none"
    /\ UNCHANGED <<size, max_steps>>

\* the callers step an episode that reset has started and that no step has
\* ended yet (the training loop of main_dqn.py resets once terminated or
\* truncated is returned)
Running == num_episodes > 0 /\ ~terminated /\ ~truncated

\* no caller catches an exception of the environment: after one, no further call
Alive == raised = "none"

\* self.num_episodes += 1
NextEpisode(episodes) == episodes + 1

\* the single resets explored: the first one, and the one that crosses the
\* threshold
ResetExplored == num_episodes = 0 \/ num_episodes = path_episode_threshold

\* one call of reset()
Reset ==
    /\ Alive
    /\ ResetExplored
    /\ \E goal_choice \in GoalChoices, noise \in NoiseVectors :
         \E draws \in BoxDraws(NextEpisode(num_episodes)) :
            ResetTo(NextEpisode(num_episodes), goal_choice, draws, noise)
    /\ UNCHANGED <<twin, dqnVars, mainVars, seedVars>>

\* a run of consecutive reset() calls with no step in between, the last of
\* which brings the episode counter to the threshold; the state it leaves is
\* that of its last call
ResetRun ==
    /\ Alive
    /\ num_episodes + 1 < path_episode_threshold
    /\ \E goal_choice \in GoalChoices, noise \in NoiseVectors :
         \E draws \in BoxDraws(path_episode_threshold) :
            ResetTo(path_episode_threshold, goal_choice, draws, noise)
    /\ UNCHANGED <<twin, dqnVars, mainVars, seedVars>>


\* step(action) for one of the four movement actions
StepTo(action, draws, noise) ==
    LET fwd_cell == grid_get(grid, fwd_pos(agent_pos, action), size)
    IN  /\ step_count' = step_count + 1
        /\ agent_pos' = StepPos(grid, agent_pos, action, size)
        /\ reward' = StepReward(fwd_cell, step_count', max_steps)
        /\ terminated' = StepTerminated(fwd_cell)
        /\ truncated' = StepTruncated(step_count', max_steps)
        /\ grid' = GenObsGrid(grid, agent_pos', goal_position, num_episodes,
                              size, size, draws)
        /\ obs_arrow' = GenObsArrow(agent_pos', size, arrow_q_values, noise)
        /\ raised' = "none"
        /\ UNCHANGED <<size, max_steps, agent_dir, num_episodes, goal_position,
                       lava_position, arrow_q_values>>

Step ==
    /\ Alive
    /\ Running
    /\ \E action \in Actions, noise \in NoiseVectors :
         \E draws \in BoxDraws(num_episodes) : StepTo(action, draws, noise)
    /\ UNCHANGED <<twin, dqnVars, mainVars, seedVars>>

\* step(action) for an action outside the enumeration: the counter is
\* incremented, no branch matches, and the lookup of self.actions.done raises
StepInvalidTo(action) ==
    /\ step_count' = step_count + 1
    /\ raised' = UnknownActionError
    /\ UNCHANGED <<size, max_steps, grid, agent_pos, agent_dir, num_episodes,
                   goal_position, lava_position, arrow_q_values, obs_arrow,
                   reward, terminated, truncated>>

StepInvalid ==
    /\ Alive
    /\ Running
    /\ \E action \in InvalidActions : StepInvalidTo(action)
    /\ UNCHANGED <<twin, dqnVars, mainVars, seedVars>>

Next == Reset \/ ResetRun \/ Step \/ StepInvalid

Spec == Init /\ [][Next]_vars

----------------------------------------------------------------------------
(* Two environments in lockstep: every reset and step is applied to both,     *)
(* with the same action and the same draws of np_random.random and            *)
(* np_random.uniform, and with the two outcomes of np_random.integers(2)      *)
(* exchanged.                                                                 *)

TwinInit ==
    /\ Init!1 /\ Init!2 /\ Init!3 /\ Init!4 /\ Init!5 /\ Init!6 /\ Init!7
    /\ Init!8 /\ Init!9 /\ Init!10 /\ Init!11 /\ Init!12 /\ Init!13
    /\ Init!14 /\ Init!15
    /\ twin = [on |-> TRUE,
               grid |-> EmptyGrid(size),
               agent_pos |-> NoPos,
               goal_position |-> NoPos,
               arrow_q_values |-> [i \in 1 .. action_space_n |-> 0],
               obs_arrow |-> [i \in 1 .. action_space_n |-> 0],
               terminated |-> FALSE]
    /\ DqnIdle
    /\ MainIdle
    /\ SeedIdle

\* reset() of the second environment
TwinResetTo(episodes, goal_choice, draws, noise) ==
    LET pos == StartPos(size, size)
        goal == GoalPosition(size, goal_choice)
        aqv == ArrowQValues(goal, size)
    IN  twin' = [on |-> TRUE,
                 grid |-> GenObsGrid(GenGrid(size, size, goal_choice), pos, goal,
                                     episodes, size, size, draws),
                 agent_pos |-> pos,
                 goal_position |-> goal,
                 arrow_q_values |-> aqv,
                 obs_arrow |-> GenObsArrow(pos, size, aqv, noise),
                 terminated |-> FALSE]

\* step(action) of the second environment
TwinStepTo(action, draws, noise) ==
    LET fwd_cell == grid_get(twin.grid, fwd_pos(twin.agent_pos, action), size)
        pos == StepPos(twin.grid, twin.agent_pos, action, size)
    IN  twin' = [twin EXCEPT
                    !.agent_pos = pos,
                    !.grid = GenObsGrid(twin.grid, pos, twin.goal_position,
                                        num_episodes, size, size, draws),
                    !.obs_arrow = GenObsArrow(pos, size, twin.arrow_q_values, noise),
                    !.terminated = StepTerminated(fwd_cell)]

TwinReset ==
    /\ Alive
    /\ num_episodes = 0
    /\ \E goal_choice \in GoalChoices, noise \in NoiseVectors :
         \E draws \in BoxDraws(NextEpisode(num_episodes)) :
            /\ ResetTo(NextEpisode(num_episodes), goal_choice, draws, noise)
            /\ TwinResetTo(NextEpisode(num_episodes), 1 - goal_choice, draws, noise)
    /\ UNCHANGED <<dqnVars, mainVars, seedVars>>

TwinResetRun ==
    /\ Alive
    /\ num_episodes + 1 < path_episode_threshold
    /\ \E goal_choice \in GoalChoices, noise \in NoiseVectors :
         \E draws \in BoxDraws(path_episode_threshold) :
            /\ ResetTo(path_episode_threshold, goal_choice, draws, noise)
            /\ TwinResetTo(path_episode_threshold, 1 - goal_choice, draws, noise)
    /\ UNCHANGED <<dqnVars, mainVars, seedVars>>

TwinStep ==
    /\ Alive
    /\ Running
    /\ ~twin.terminated
    /\ \E action \in Actions, noise \in NoiseVectors :
         \E draws \in BoxDraws(num_episodes) :
            /\ StepTo(action, draws, noise)
            /\ TwinStepTo(action, draws, noise)
    /\ UNCHANGED <<dqnVars, mainVars, seedVars>>

TwinNext == TwinReset \/ TwinResetRun \/ TwinStep

SpecTwin == TwinInit /\ [][TwinNext]_vars

----------------------------------------------------------------------------
(* State functions used by the properties *)

\* an episode has been started
Started == num_episodes > 0

\* the corner cells and the decision cell, as the claims name them
LeftCorner == <<1, 1>>
RightCorner == <<size - 2, 1>>
DecisionCell == <<(size - 1) \div 2, 1>>

\* what the grid holds on the two corners
GoalLeft == grid_get(grid, LeftCorner, size) = "goal"
GoalRight == grid_get(grid, RightCorner, size) = "goal"
HazardLeft == grid_get(grid, LeftCorner, size) = "lava"
HazardRight == grid_get(grid, RightCorner, size) = "lava"

\* the cells that hold a decoy (grey box)
Decoys == {c \in Cells(size) : grid_get(grid, c, size) = "grey_goal"}

\* a transition made by a step() call that returned
IsStep ==
    /\ num_episodes' = num_episodes
    /\ step_count' = step_count + 1
    /\ raised' = "none"

\* a step() call that moved the agent onto cell c
MovedOnto(c) == IsStep /\ agent_pos # c /\ agent_pos' = c

----------------------------------------------------------------------------
(* C1..C10: the environment TMaze of main_dqn.py *)

\* C1: whenever the agent stands on the decision cell, the hint of the last
\* observation is the length-4 vector with 1.0 at index 0 when the Goal is in
\* the left corner and 1.0 at index 1 when it is in the right corner.
C1_HintAtDecisionCell ==
    (Started /\ agent_pos = DecisionCell) =>
        /\ DOMAIN obs_arrow = 1 .. 4
        /\ GoalLeft \/ GoalRight
        /\ GoalLeft => obs_arrow = <<1, 0, 0, 0>>
        /\ GoalRight => obs_arrow = <<0, 1, 0, 0>>

C1_Witness ==
    /\ agent_pos = DecisionCell
    /\ step_count > 0
    /\ GoalRight
    /\ obs_arrow = <<0, 1, 0, 0>>

C4_HazardTerminates ==
    [][ MovedOnto(lava_position) =>
            /\ terminated'
            /\ reward' = 0
            /\ grid_get(grid, agent_pos', size) = "lava" ]_vars

C4_Witness ==
    /\ Started
    /\ agent_pos = lava_position
    /\ terminated
    /\ reward = 0
    /\ step_count = max_steps

\* C5: a step returns truncated = True exactly when the step counter after it
\* is >= max_steps, and a truncating step that did not move the agent onto the
\* Goal or the Hazard returns reward 0 and terminated = False.
C5_TruncationAtMaxSteps ==
    [][ IsStep =>
            /\ truncated' <=> step_count' >= max_steps
            /\ (truncated' /\ agent_pos' # goal_position /\ agent_pos' # lava_position) =>
                    (reward' = 0 /\ ~terminated') ]_vars

\* the cell a movement action aims at: left (-1, 0), forward (0, -1),
\* right (+1, 0), backward (0, +1)
Target(pos, action) ==
    CASE action = 0 -> <<pos[1] - 1, pos[2]>>
      [] action = 1 -> <<pos[1], pos[2] - 1>>
      [] action = 2 -> <<pos[1] + 1, pos[2]>>
      [] action = 3 -> <<pos[1], pos[2] + 1>>

\* the transition is one that step(action) makes from the current state
StepTaken(action) ==
    /\ IsStep
    /\ agent_pos' = StepPos(grid, agent_pos, action, size)
    /\ reward' = StepReward(grid_get(grid, fwd_pos(agent_pos, action), size),
                            step_count', max_steps)
    /\ terminated' = StepTerminated(grid_get(grid, fwd_pos(agent_pos, action), size))

\* C6: for each of the four movement actions, a step whose target cell is a
\* wall leaves the position unchanged, returns reward 0 and terminated = False,
\* and increments the step counter by one.
C6_WallBlocks ==
    [][ \A action \in 0 .. 3 :
            (StepTaken(action)
                /\ grid_get(grid, Target(agent_pos, action), size) = "wall") =>
                /\ agent_pos' = agent_pos
                /\ reward' = 0
                /\ ~terminated'
                /\ step_count' = step_count + 1 ]_vars

C6_Witness ==
    /\ Started
    /\ raised = "none"
    /\ agent_pos = StartPos(size, size)
    /\ step_count = 1
    /\ reward = 0
    /\ ~terminated
    /\ \A action \in {0, 2, 3} :
          grid_get(grid, Target(agent_pos, action), size) = "wall"

\* C7: a step with an action outside {0, 1, 2, 3} fails with the explicit
\* invalid-action error (ValueError "Unknown action") and leaves the agent
\* position, facing, step counter, grid and episode counter as they were.
C7_InvalidActionRejected ==
    [][ raised' # "none" =>
            /\ raised' = "ValueError"
            /\ UNCHANGED <<agent_pos, agent_dir, step_count, grid, num_episodes>> ]_vars

\* C8 as stated: past the threshold every observation leaves exactly one decoy,
\* on the candidate cell of the goal side, wherever the agent stands.
C8_DecoyOnGoalSide ==
    (Started /\ num_episodes > 2000) =>
        /\ GoalLeft => Decoys = {left_box(size, size)}
        /\ GoalRight => Decoys = {right_box(size, size)}

\* C8 amended: past the threshold every observation leaves exactly one decoy;
\* it is on the candidate cell of the goal side while the agent is in the top
\* row (y = 1), and on the upper candidate cell (up_box) everywhere else.
C8_DecoyFollowsRow ==
    (Started /\ num_episodes > 2000) =>
        /\ Cardinality(Decoys) = 1
        /\ GoalLeft \/ GoalRight
        /\ (agent_pos[2] = 1 /\ GoalLeft) => Decoys = {left_box(size, size)}
        /\ (agent_pos[2] = 1 /\ GoalRight) => Decoys = {right_box(size, size)}
        /\ agent_pos[2] # 1 => Decoys = {up_box(size, size)}

C8_Witness ==
    /\ num_episodes > 2000
    /\ agent_pos[2] = 1
    /\ step_count > 0
    /\ GoalRight
    /\ Decoys = {right_box(size, size)}

\* C9: the placement mode is a step function of num_episodes alone.  While
\* num_episodes <= 2000 the next observation of a running episode may leave no
\* decoy as well as four (the placement is drawn); once num_episodes > 2000
\* every observation leaves a single decoy.  reset increments num_episodes by
\* exactly one, step never changes it, it never decreases, and the mode never
\* goes back from deterministic to random.
C9_ThresholdStepFunction ==
    /\ [](   (Alive /\ Running /\ num_episodes <= 2000) =>
                /\ ENABLED (Step /\ Decoys' = {})
                /\ ENABLED (Step /\ Cardinality(Decoys') = 4))
    /\ [][ /\ num_episodes' >= num_episodes
           /\ step_count' = step_count + 1 => num_episodes' = num_episodes
           /\ Reset => num_episodes' = num_episodes + 1
           /\ num_episodes > 2000 => num_episodes' > 2000
           /\ (Started' /\ num_episodes' > 2000) => Cardinality(Decoys') = 1 ]_vars

C9_Witness ==
    /\ num_episodes = 2000
    /\ step_count > 0
    /\ raised = "none"
    /\ Cardinality(Decoys) = 4

\* the cells of the second environment that hold a decoy
TwinDecoys == {c \in Cells(size) : grid_get(twin.grid, c, size) = "grey_goal"}

\* C10: two runs with the same actions and the same draws that differ in the
\* goal assignment: while num_episodes <= 2000 and the agent is not on the
\* decision cell, the hint vector and the set of decoy cells of the last
\* observation are the same in both runs.
C10_HintIndependentOfGoal ==
    (Started /\ num_episodes <= 2000 /\ agent_pos # DecisionCell) =>
        /\ twin.goal_position # goal_position
        /\ twin.agent_pos = agent_pos
        /\ twin.terminated = terminated
        /\ twin.obs_arrow = obs_arrow
        /\ TwinDecoys = Decoys

C10_Witness ==
    /\ Started
    /\ num_episodes <= 2000
    /\ agent_pos[2] = 1
    /\ agent_pos # DecisionCell
    /\ twin.agent_pos = agent_pos
    /\ twin.goal_position # goal_position
    /\ Decoys # {}

----------------------------------------------------------------------------
(* Exact rationals <<numerator, denominator>>, denominator positive, in    *)
(* lowest terms: the values the float arithmetic of main.py approximates   *)

Abs(x) == IF x < 0 THEN 0 - x ELSE x

RECURSIVE GCD(_, _)
GCD(a, b) == IF b = 0 THEN a ELSE GCD(b, a % b)

Rat(n, d) == LET g == GCD(Abs(n), d) IN <<n \div g, d \div g>>

RInt(n) == <<n, 1>>

LCM(a, b) == (a \div GCD(a, b)) * b

RAdd(p, q) ==
    LET d == LCM(p[2], q[2])
    IN  Rat(p[1] * (d \div p[2]) + q[1] * (d \div q[2]), d)

RNeg(p) == <<0 - p[1], p[2]>>

RSub(p, q) == RAdd(p, RNeg(q))

RMul(p, q) == Rat(p[1] * q[1], p[2] * q[2])

----------------------------------------------------------------------------
(* main.py: class TMaze(MiniGridEnv).  It overrides __init__, _gen_grid    *)
(* and gen_obs; reset and step are MiniGridEnv's.                          *)

\* register(id="MiniGrid-TMaze-v0-custom", kwargs={"size": 9})
MainSize == 9

\* if max_steps is None: max_steps = 4 * size**2
MainMaxSteps == 4 * MainSize * MainSize

\* the actions of MiniGridEnv (envs.action_space is Discrete(7)): left = 0,
\* right = 1, forward = 2, then pickup, drop, toggle, done
turn_left == 0
turn_right == 1
move_forward == 2
MiniGridActions == 0 .. 6

\* DIR_TO_VEC of MiniGrid: 0 right, 1 down, 2 left, 3 up
DIR_TO_VEC == << <<1, 0>>, <<0, 1>>, <<0 - 1, 0>>, <<0, 0 - 1>> >>

\* MiniGridEnv.front_pos
front_pos(pos, dir) ==
    <<pos[1] + DIR_TO_VEC[dir + 1][1], pos[2] + DIR_TO_VEC[dir + 1][2]>>

\* _gen_grid: the same six wall calls as in main_dqn.py, then the Goal at
\* goal_position = np_random.choice([(1, 1), (width - 2, 1)]); no Lava
MainGenGrid(width, height, goal_choice) ==
    put_obj(GenWalls(width, height), "goal", goal_positions(width)[goal_choice + 1],
            width)

\* the grid of each goal choice, built once
MainGrids == [c \in GoalChoices |-> MainGenGrid(MainSize, MainSize, c)]

\* gen_obs at the junction: self.arrow_position is the element-wise comparison
\* of the goal_position array with a pair, an array of two booleans, and
\* float() of it raises TypeError; elsewhere the hint is float(0)
MainGenObsRaises(pos, height) == pos[1] = (height - 1) \div 2 /\ pos[2] = 1

\* np.random.randint(low, high): an integer of the half-open range
\* [low, high)
randint(low, high) == low .. high - 1

\* gen_obs away from the junction: maybe_random_arrow = np.random.randint(0, 1),
\* whose upper end is exclusive, and "arrow": float(maybe_random_arrow)
MainNoise == randint(0, 1)
MainHint == CHOOSE h \in MainNoise : TRUE

\* envs.reset(seed=args.seed): _gen_grid, step_count = 0, gen_obs at the start
MainReset(goal_choice) ==
    [grid |-> MainGrids[goal_choice],
     agent_pos |-> StartPos(MainSize, MainSize),
     agent_dir |-> StartDir,
     step_count |-> 0,
     max_steps |-> MainMaxSteps]

\* MiniGridEnv.step(action): what it returns and the environment it leaves.
\* Nothing in it looks at whether the episode has ended.  pickup, drop, toggle
\* and done change nothing in this grid (no object can be picked up or toggled)
MainStep(e, action) ==
    LET k == e.step_count + 1
        fp == front_pos(e.agent_pos, e.agent_dir)
        fwd_cell == grid_get(e.grid, fp, MainSize)
        moves == action = move_forward /\ Traversable(fwd_cell)
        pos == IF moves THEN fp ELSE e.agent_pos
        dir == IF action = turn_left THEN (e.agent_dir + 3) % 4
               ELSE IF action = turn_right THEN (e.agent_dir + 1) % 4
               ELSE e.agent_dir
    IN  [envs |-> [e EXCEPT !.agent_pos = pos, !.agent_dir = dir, !.step_count = k],
         reward |-> IF moves /\ fwd_cell = "goal"
                    THEN Rat(_reward(k, e.max_steps), RewardDen(e.max_steps))
                    ELSE RInt(0),
         terminated |-> moves /\ StepTerminated(fwd_cell),
         truncated |-> StepTruncated(k, e.max_steps),
         raised |-> MainGenObsRaises(pos, MainSize)]

----------------------------------------------------------------------------
(* main.py: the __main__ block, from the parsed arguments to the end of    *)
(* the rollout loop.  Observation tensors, actions and log-probabilities   *)
(* are stored for the network only and are not kept.                       *)

\* total_timesteps of the long run is the episode limit plus ExtraSteps
ExtraSteps == 2

\* total_timesteps of the short runs
ShortTotals == {5, 7}

\* compute_penalty: float = 0.003
compute_penalty == Rat(3, 1000)

\* learning_rate: float = 2.5e-4
learning_rate == Rat(1, 4000)

\* value standing for target_kl = None (a threshold is a positive number)
NoTargetKL == 0 - 1

\* the arguments not explored by a specification
NoArgs ==
    [total_timesteps |-> 0, num_envs |-> 1, num_steps |-> 1,
     num_minibatches |-> 1, update_epochs |-> 1, target_kl |-> NoTargetKL,
     compute_penalty |-> compute_penalty,
     learning_rate |-> learning_rate, anneal_lr |-> TRUE,
     gamma |-> Rat(99, 100), gae_lambda |-> Rat(95, 100),
     batch_size |-> 0, minibatch_size |-> 0, num_iterations |-> 0]

\* command lines explored for the rollout loop: one run longer than an
\* episode can last, and short runs over the other shapes of the batch
RolloutArgs ==
    {[NoArgs EXCEPT !.total_timesteps = MainMaxSteps + ExtraSteps, !.num_steps = 2]}
    \cup {[NoArgs EXCEPT !.total_timesteps = tt, !.num_envs = ne, !.num_steps = ns,
                         !.anneal_lr = al] :
            tt \in ShortTotals, ne \in {1, 2}, ns \in {1, 3}, al \in BOOLEAN}

\* a slip of the setup: the number of iterations rounded up
NumIterations_rounded_up(total, batch) == (total + batch - 1) \div batch

\* args.num_iterations = args.total_timesteps // args.batch_size
NumIterations(total, batch) == total \div batch

\* lines 432-434: the fields of args computed at run time
SetupArgs(a) ==
    LET batch == a.num_envs * a.num_steps
    IN  [a EXCEPT !.batch_size = batch,
                  !.minibatch_size = batch \div a.num_minibatches,
                  !.num_iterations = NumIterations(a.total_timesteps, batch)]

\* torch.zeros((args.num_steps, args.num_envs)): the single environment's
\* value is broadcast over the num_envs columns, one column is kept
ZeroSlots(n) == [i \in 1 .. n |-> RInt(0)]

\* value estimates returned by the critic during the rollout; the rollout
\* loop only stores them, so one value is explored
RolloutValues == {Rat(1, 2)}

\* agent._last_gate of GatedAgent (module networks): 0 after the heavy branch
\* was executed for the action, 1 after the cheap one
HeavyBranch(gate) == gate = 0

\* a slip of the rollout: the penalty charged on the cheap branch
Penalty_on_cheap(gate, c) == RMul(RInt(gate), c)

\* penalty = (1 - agent._last_gate.float()) * args.compute_penalty
Penalty(gate, c) == RMul(RInt(1 - gate), c)

\* a slip of the annealing: the fraction taken after the iteration
LrNow_after_iteration(a, i, current) ==
    IF a.anneal_lr
    THEN RMul(RSub(RInt(1), Rat(i, a.num_iterations)), a.learning_rate)
    ELSE current

\* lines 496-499: frac = 1.0 - (iteration - 1.0) / args.num_iterations,
\* lrnow = frac * args.learning_rate, set on the optimizer if args.anneal_lr
LrNow(a, i, current) ==
    IF a.anneal_lr
    THEN RMul(RSub(RInt(1), Rat(i - 1, a.num_iterations)), a.learning_rate)
    ELSE current

\* no environment of main_dqn.py is constructed by main.py
EnvIdle ==
    /\ size = 0
    /\ max_steps = 0
    /\ grid = <<>>
    /\ agent_pos = NoPos
    /\ agent_dir = 0 - 1
    /\ step_count = 0
    /\ num_episodes = 0
    /\ goal_position = NoPos
    /\ lava_position = NoPos
    /\ arrow_q_values = <<>>
    /\ obs_arrow = <<>>
    /\ reward = 0
    /\ terminated = FALSE
    /\ truncated = FALSE
    /\ raised = "none"
    /\ twin = NoTwin
    /\ DqnIdle
    /\ SeedIdle

\* after args = tyro.cli(Args)
InitRollout ==
    /\ EnvIdle
    /\ args \in RolloutArgs
    /\ pc = "parsed"
    /\ writer_failed = FALSE
    /\ lr = <<>>
    /\ envs = <<>>
    /\ iteration = 0
    /\ step = 0
    /\ global_step = 0
    /\ next_done = 0
    /\ last_gate = 0
    /\ rewards = <<>>
    /\ dones = <<>>
    /\ values = <<>>
    /\ GaeIdle
    /\ UpdateIdle
    /\ HintIdle

\* lines 432-492: batch sizes, make_env, storage, the one envs.reset of the
\* program, next_done = zeros
Setup ==
    /\ pc = "parsed"
    /\ args' = SetupArgs(args)
    /\ \E goal_choice \in GoalChoices : envs' = MainReset(goal_choice)
    /\ rewards' = ZeroSlots(args.num_steps)
    /\ dones' = [i \in 1 .. args.num_steps |-> 0]
    /\ values' = ZeroSlots(args.num_steps)
    /\ global_step' = 0
    /\ next_done' = 0
    /\ arrows' = [i \in 1 .. args.num_steps |-> 0]
    /\ full_obs_arrow' = MainHint
    /\ lr' = args.learning_rate
    /\ pc' = "loop"
    /\ UNCHANGED <<iteration, step, last_gate, writer_failed, mb_arrow>>
    /\ UNCHANGED <<envVars, twin, dqnVars, seedVars, gaeVars, updateVars>>

\* for iteration in range(1, args.num_iterations + 1), with the annealing of
\* the learning rate; after the last iteration envs.close() and writer.close()
LoopHead ==
    /\ pc = "loop"
    /\ IF iteration < args.num_iterations
       THEN /\ iteration' = iteration + 1
            /\ lr' = LrNow(args, iteration', lr)
            /\ step' = 0
            /\ pc' = "rollout"
       ELSE /\ pc' = "closed"
            /\ UNCHANGED <<iteration, step, lr>>
    /\ UNCHANGED <<args, writer_failed, envs, global_step, next_done, last_gate, rewards, dones,
                   values>>
    /\ UNCHANGED <<envVars, twin, dqnVars, seedVars, hintVars, gaeVars, updateVars>>

\* one pass of `for step in range(0, args.num_steps)`: the slot's done flag,
\* the action, the gate and the value of the actor-critic, envs.step, the
\* penalty, the slot's reward, next_done, and the two writer.add_scalar calls
\* made when the step ended the episode.  An exception of envs.step or of
\* writer.add_scalar is caught nowhere and ends the program
RolloutStepTo(action, gate, value, log_fails) ==
    LET r == MainStep(envs, action)
    IN  /\ global_step' = global_step + args.num_envs
        /\ arrows' = [arrows EXCEPT ![step + 1] = full_obs_arrow]
        /\ dones' = [dones EXCEPT ![step + 1] = next_done]
        /\ values' = [values EXCEPT ![step + 1] = value]
        /\ last_gate' = gate
        /\ envs' = r.envs
        /\ IF r.raised
           THEN /\ pc' = "raised"
                /\ UNCHANGED <<rewards, next_done, step, writer_failed,
                               full_obs_arrow>>
           ELSE /\ rewards' = [rewards EXCEPT ![step + 1] =
                                  RSub(r.reward, Penalty(gate, args.compute_penalty))]
                /\ next_done' = IF r.terminated \/ r.truncated THEN 1 ELSE 0
                /\ full_obs_arrow' = MainHint
                /\ IF log_fails
                   THEN /\ writer_failed' = TRUE
                        /\ pc' = "raised"
                        /\ UNCHANGED step
                   ELSE /\ step' = step + 1
                        /\ pc' = IF step + 1 < args.num_steps
                                 THEN "rollout" ELSE "learn"
                        /\ UNCHANGED writer_failed
        /\ UNCHANGED <<args, lr, iteration>>

\* the outcomes of the logging of a pass: writer.add_scalar is called only
\* `if any(terminations) or any(truncations)`
LogOutcomes(r) == IF r.terminated \/ r.truncated THEN BOOLEAN ELSE {FALSE}

RolloutStep ==
    /\ pc = "rollout"
    /\ \E action \in MiniGridActions, gate \in {0, 1}, value \in RolloutValues :
         \E log_fails \in LogOutcomes(MainStep(envs, action)) :
            RolloutStepTo(action, gate, value, log_fails)
    /\ UNCHANGED <<envVars, twin, dqnVars, seedVars, gaeVars, updateVars, mb_arrow>>

\* lines 545-655: the advantage pass over the filled slots, the optimisation
\* and the logging of the iteration, which write none of the variables of the
\* rollout loop; their steps are those of SpecGAE and SpecUpdate.  An
\* exception of one of the writer.add_scalar calls (642-655) ends the program
Learn ==
    /\ pc = "learn"
    /\ \E log_fails \in BOOLEAN :
         /\ writer_failed' = log_fails
         /\ pc' = IF log_fails THEN "raised" ELSE "loop"
    /\ UNCHANGED <<args, lr, loopVars>>
    /\ UNCHANGED <<envVars, twin, dqnVars, seedVars, hintVars, gaeVars, updateVars>>

NextRollout == Setup \/ LoopHead \/ RolloutStep \/ Learn

SpecRollout == InitRollout /\ [][NextRollout]_vars

\* a pass of the rollout loop that called envs.step
IsRolloutStep == pc = "rollout" /\ global_step' # global_step

\* C11: in the training loop of main.py, once envs.step has returned
\* terminated or truncated (next_done = 1), the environment is reset before
\* the next action is executed: no pass of the rollout loop steps an
\* episode that has ended.
C11_ResetBeforeNextStep == [][IsRolloutStep => next_done = 0]_vars

----------------------------------------------------------------------------
(* main.py: the advantage pass (lines 545-563) on the slots of one rollout *)

\* longest rollout explored
MaxT == 3

\* inputs of the pass: slot rewards (a plain step, a penalised step), value
\* estimates of the critic, the discount and the GAE parameter
RewardInputs == {RInt(0), RNeg(compute_penalty)}
CriticValues == {RInt(1), Rat(0 - 1, 2)}
Gammas == {Rat(1, 2)}
Lambdas == {Rat(1, 2), RInt(1)}

\* a slip of the pass: the done flag of the slot itself
NextNonTerminal_same_slot(tt, ds, nd, T) ==
    IF tt = T - 1 THEN RInt(1 - nd) ELSE RInt(1 - ds[tt + 1])

\* nextnonterminal = 1.0 - next_done for t == num_steps - 1, 1.0 - dones[t + 1]
\* otherwise (slot t is kept at index t + 1)
NextNonTerminal(tt, ds, nd, T) ==
    IF tt = T - 1 THEN RInt(1 - nd) ELSE RInt(1 - ds[tt + 2])

\* a slip of the pass: the value of the slot itself
NextValues_same_slot(tt, vs, nv, T) == IF tt = T - 1 THEN nv ELSE vs[tt + 1]

\* nextvalues = next_value for t == num_steps - 1, values[t + 1] otherwise
NextValues(tt, vs, nv, T) == IF tt = T - 1 THEN nv ELSE vs[tt + 2]

\* delta = rewards[t] + args.gamma * nextvalues * nextnonterminal - values[t]
Delta(r, g, nextvalues, nextnonterminal, v) ==
    RSub(RAdd(r, RMul(RMul(g, nextvalues), nextnonterminal)), v)

\* delta + args.gamma * args.gae_lambda * nextnonterminal * lastgaelam
GaeLam(delta, g, lam, nextnonterminal, last) ==
    RAdd(delta, RMul(RMul(RMul(g, lam), nextnonterminal), last))

\* at line 545 of an iteration, the slots filled by a rollout of T steps
InitGAE ==
    /\ EnvIdle
    /\ \E T \in 1 .. MaxT, g \in Gammas, lam \in Lambdas :
         /\ args = SetupArgs([NoArgs EXCEPT !.num_steps = T, !.total_timesteps = T,
                                           !.gamma = g, !.gae_lambda = lam])
         /\ rewards \in [1 .. T -> RewardInputs]
         /\ values \in [1 .. T -> CriticValues]
         /\ dones \in [1 .. T -> {0, 1}]
         /\ step = T
         /\ global_step = T
    /\ next_done \in {0, 1}
    /\ pc = "learn"
    /\ writer_failed = FALSE
    /\ lr = args.learning_rate
    /\ envs = <<>>
    /\ iteration = 1
    /\ last_gate = 0
    /\ GaeIdle
    /\ UpdateIdle
    /\ arrows = [i \in 1 .. args.num_steps |-> MainHint]
    /\ full_obs_arrow = MainHint
    /\ mb_arrow = NoHint

\* lines 547-549: the bootstrap value of the critic, advantages = zeros,
\* lastgaelam = 0, and the first t of reversed(range(args.num_steps))
Bootstrap ==
    /\ pc = "learn"
    /\ \E nv \in CriticValues : next_value' = nv
    /\ advantages' = ZeroSlots(args.num_steps)
    /\ lastgaelam' = RInt(0)
    /\ t' = args.num_steps - 1
    /\ pc' = "gae"
    /\ UNCHANGED <<args, writer_failed, lr, loopVars, returns>>
    /\ UNCHANGED <<envVars, twin, dqnVars, seedVars, hintVars, updateVars>>

\* one pass of `for t in reversed(range(args.num_steps))`
AdvantageStep ==
    /\ pc = "gae"
    /\ LET nextnonterminal == NextNonTerminal(t, dones, next_done, args.num_steps)
           nextvalues == NextValues(t, values, next_value, args.num_steps)
           delta == Delta(rewards[t + 1], args.gamma, nextvalues, nextnonterminal,
                          values[t + 1])
           gaelam == GaeLam(delta, args.gamma, args.gae_lambda, nextnonterminal,
                            lastgaelam)
       IN  /\ advantages' = [advantages EXCEPT ![t + 1] = gaelam]
           /\ lastgaelam' = gaelam
    /\ IF t > 0
       THEN t' = t - 1 /\ pc' = "gae"
       ELSE t' = t /\ pc' = "returns"
    /\ UNCHANGED <<args, writer_failed, lr, loopVars, next_value, returns>>
    /\ UNCHANGED <<envVars, twin, dqnVars, seedVars, hintVars, updateVars>>

\* returns = advantages + values
Returns ==
    /\ pc = "returns"
    /\ returns' = [i \in 1 .. args.num_steps |-> RAdd(advantages[i], values[i])]
    /\ pc' = "flatten"
    /\ UNCHANGED <<args, writer_failed, lr, loopVars, next_value, t, lastgaelam, advantages>>
    /\ UNCHANGED <<envVars, twin, dqnVars, seedVars, hintVars, updateVars>>

NextGAE == Bootstrap \/ AdvantageStep \/ Returns

SpecGAE == InitGAE /\ [][NextGAE]_vars

\* the recursion the pass is to compute, on the slots of the current state
\* (tt = 0 .. T - 1, and 0 at tt = T)
RECURSIVE RefAdvantage(_)
RefAdvantage(tt) ==
    IF tt = args.num_steps THEN RInt(0)
    ELSE LET last == tt = args.num_steps - 1
             nnt == RInt(1 - (IF last THEN next_done ELSE dones[tt + 2]))
             nxv == IF last THEN next_value ELSE values[tt + 2]
             dlt == RSub(RAdd(rewards[tt + 1], RMul(args.gamma, RMul(nxv, nnt))),
                         values[tt + 1])
         IN  RAdd(dlt, RMul(RMul(args.gamma, args.gae_lambda),
                            RMul(nnt, RefAdvantage(tt + 1))))

\* C12: the advantage pass starts at t = T - 1 and visits T - 1, ..., 0 in
\* strictly decreasing order, writing only the slot it visits; when it ends,
\* advantages[t] is the GAE recursion's value for every t (advantage[T] = 0,
\* nextnonterminal and nextvalue taken from slot t + 1, from next_done and the
\* bootstrap value at t = T - 1), and returns = advantages + values.
C12_AdvantagePass ==
    /\ [](pc = "flatten" =>
            \A i \in 1 .. args.num_steps :
               /\ advantages[i] = RefAdvantage(i - 1)
               /\ returns[i] = RAdd(RefAdvantage(i - 1), values[i]))
    /\ [][/\ (pc = "learn" => t' = args.num_steps - 1)
          /\ (pc = "gae" =>
                /\ \A i \in 1 .. args.num_steps :
                      i # t + 1 => advantages'[i] = advantages[i]
                /\ advantages'[t + 1] = RefAdvantage(t)
                /\ (t' = t - 1 \/ (t = 0 /\ pc' = "returns")))]_vars

\* a pass of the longest length has ended over slots with a done flag inside
\* the rollout, a following step, and a non-zero bootstrap
C12_Witness ==
    /\ pc = "flatten"
    /\ args.num_steps = MaxT
    /\ dones[2] = 1
    /\ dones[MaxT] = 0
    /\ next_done = 0
    /\ rewards[1] # RInt(0)
    /\ advantages[1] # advantages[2]

\* the discounted sum of the rewards from slot tt to the last slot
RECURSIVE MonteCarlo(_)
MonteCarlo(tt) ==
    IF tt = args.num_steps THEN RInt(0)
    ELSE RAdd(rewards[tt + 1], RMul(args.gamma, MonteCarlo(tt + 1)))

\* the trajectory of the rollout lies in one episode and ends it
TerminalOnly ==
    /\ next_done = 1
    /\ \A i \in 2 .. args.num_steps : dones[i] = 0

\* C13: on a rollout that lies inside one episode and whose last step ends
\* it (next_done = 1), the pass with lambda = 1 yields returns[t] equal to
\* the discounted sum of the rewards of slots t .. T - 1, whatever the value
\* estimates and the bootstrap value are.
C13_MonteCarloReturns ==
    pc = "flatten" /\ args.gae_lambda = RInt(1) /\ TerminalOnly =>
        \A i \in 1 .. args.num_steps : returns[i] = MonteCarlo(i - 1)

\* such a rollout of the longest length, with rewards and differing value
\* estimates
C13_Witness ==
    /\ pc = "flatten"
    /\ args.gae_lambda = RInt(1)
    /\ TerminalOnly
    /\ args.num_steps = MaxT
    /\ \A i \in 1 .. MaxT : rewards[i] # RInt(0)
    /\ values[1] # values[2]
    /\ next_value # RInt(0)
    /\ returns[1] = MonteCarlo(0)
    /\ returns[1] # returns[MaxT]

----------------------------------------------------------------------------
(* main.py: the optimisation of an iteration (lines 573-635): epochs over  *)
(* the shuffled index array, minibatches as slices of it, the target-KL    *)
(* test.  Losses and gradients are the network's; of them only approx_kl   *)
(* is read by the control flow, and it is drawn from KLValues.  The        *)
(* rollout storage is not read by the index arithmetic.                    *)

\* largest num_minibatches explored
MaxMinibatches == 3

\* (num_envs, num_steps) explored: batches of 1, 3, 4 and 5 transitions
UpdateShapes == {<<1, 1>>, <<1, 3>>, <<2, 2>>, <<1, 5>>}

\* update_epochs explored
UpdateEpochs == {2, 3}

\* approx_kl of a minibatch and the target_kl settings, in thousandths
KLValues == {10, 30}
TargetKLs == {NoTargetKL, 20}

\* command lines explored for the optimisation: two iterations each
UpdateArgs ==
    {SetupArgs([NoArgs EXCEPT !.num_envs = sh[1], !.num_steps = sh[2],
                             !.total_timesteps = 2 * sh[1] * sh[2],
                             !.num_minibatches = nm, !.update_epochs = ue,
                             !.target_kl = kl]) :
        sh \in UpdateShapes, nm \in 1 .. MaxMinibatches, ue \in UpdateEpochs,
        kl \in TargetKLs}

\* np.arange(args.batch_size)
arange(n) == [i \in 1 .. n |-> i - 1]

\* the outcomes of np.random.shuffle(b_inds): every rearrangement of the array
Shuffles(b) == {[i \in 1 .. Len(b) |-> b[perm[i]]] : perm \in Permutations(1 .. Len(b))}

Min(a, b) == IF a < b THEN a ELSE b

\* a slip of the slice: the element at `end` taken as well
Slice_inclusive(b, from, to) == SubSeq(b, from + 1, Min(to + 1, Len(b)))

\* b[from:to] of Python: positions from .. to - 1, cut at the end of the array
Slice(b, from, to) == SubSeq(b, from + 1, Min(to, Len(b)))

\* a slip of the test: the threshold is never consulted
KLBreak_never(target, kl) == FALSE

\* if args.target_kl is not None and approx_kl > args.target_kl: break
KLBreak(target, kl) == target # NoTargetKL /\ kl > target

\* a slip of the re-evaluation: the hint recorded for the minibatch's first
\* sample (one environment: sample k is slot k)
MinibatchArrow_from_storage(full, stored, inds) == stored[inds[1] + 1]

\* arrow=torch.tensor(full_obs["arrow"]).unsqueeze(0) of the re-evaluation:
\* full_obs is the observation the rollout's last envs.step returned; the
\* storage `arrows` and mb_inds are at hand and not used
MinibatchArrow(full, stored, inds) == full

\* at line 573 of the first iteration
InitUpdate ==
    /\ EnvIdle
    /\ args \in UpdateArgs
    /\ pc = "optimize"
    /\ writer_failed = FALSE
    /\ lr = args.learning_rate
    /\ envs = <<>>
    /\ iteration = 1
    /\ step = args.num_steps
    /\ global_step = args.batch_size
    /\ next_done = 0
    /\ last_gate = 0
    /\ rewards = <<>>
    /\ dones = <<>>
    /\ values = <<>>
    /\ GaeIdle
    /\ UpdateIdle
    /\ arrows = [i \in 1 .. args.num_steps |-> MainHint]
    /\ full_obs_arrow = MainHint
    /\ mb_arrow = NoHint

\* lines 574-576: b_inds = np.arange(args.batch_size), clipfracs = [], and the
\* epoch loop entered at its first epoch
Optimize ==
    /\ pc = "optimize"
    /\ b_inds' = arange(args.batch_size)
    /\ epoch' = 0
    /\ pc' = "epoch"
    /\ UNCHANGED <<start, mb_inds, approx_kl, epoch_mb_inds>>
    /\ UNCHANGED <<args, writer_failed, lr, loopVars, gaeVars, envVars, twin, dqnVars, seedVars, hintVars>>

\* for epoch in range(args.update_epochs): the shuffle and the header of the
\* minibatch loop, range(0, args.batch_size, args.minibatch_size), which raises
\* ValueError for a step of 0; after the last epoch, the logging
EpochHead ==
    /\ pc = "epoch"
    /\ IF epoch < args.update_epochs
       THEN /\ b_inds' \in Shuffles(b_inds)
            /\ epoch_mb_inds' = <<>>
            /\ IF args.minibatch_size = 0
               THEN pc' = "raised" /\ UNCHANGED start
               ELSE pc' = "minibatch" /\ start' = 0
       ELSE /\ pc' = "log"
            /\ UNCHANGED <<b_inds, start, epoch_mb_inds>>
    /\ UNCHANGED <<epoch, mb_inds, approx_kl>>
    /\ UNCHANGED <<args, writer_failed, lr, loopVars, gaeVars, envVars, twin, dqnVars, seedVars, hintVars>>

\* one pass of the minibatch loop (lines 579-632): the slice, the losses with
\* approx_kl, optimizer.step(); after the last pass, the target-KL test
Minibatch ==
    /\ pc = "minibatch"
    /\ IF start < args.batch_size
       THEN /\ mb_inds' = Slice(b_inds, start, start + args.minibatch_size)
            /\ approx_kl' \in KLValues
            /\ epoch_mb_inds' = Append(epoch_mb_inds, mb_inds')
            /\ mb_arrow' = MinibatchArrow(full_obs_arrow, arrows, mb_inds')
            /\ start' = start + args.minibatch_size
            /\ pc' = "minibatch"
       ELSE /\ pc' = "kl"
            /\ UNCHANGED <<mb_inds, approx_kl, epoch_mb_inds, start, mb_arrow>>
    /\ UNCHANGED <<b_inds, epoch, arrows, full_obs_arrow>>
    /\ UNCHANGED <<args, writer_failed, lr, loopVars, gaeVars, envVars, twin, dqnVars, seedVars>>

\* lines 634-635: the break out of the epoch loop, or the next epoch
KLTest ==
    /\ pc = "kl"
    /\ IF KLBreak(args.target_kl, approx_kl)
       THEN pc' = "log" /\ UNCHANGED epoch
       ELSE pc' = "epoch" /\ epoch' = epoch + 1
    /\ UNCHANGED <<b_inds, start, mb_inds, approx_kl, epoch_mb_inds>>
    /\ UNCHANGED <<args, writer_failed, lr, loopVars, gaeVars, envVars, twin, dqnVars, seedVars, hintVars>>

\* lines 637-655 and the next pass of the iteration loop: the logging, then
\* either the next iteration up to its line 573 (its rollout and advantage
\* pass write none of the variables of the optimisation) or the end.  An
\* exception of one of the writer.add_scalar calls ends the program.
\* hints[k] is the hint of the observation returned by the k-th envs.step of
\* the next rollout: slot 0 records the hint at hand, slot k the hint
\* returned by step k, and full_obs is left at the last one
LogAndCollectTo(hints) ==
    /\ pc = "log"
    /\ \E log_fails \in BOOLEAN :
         /\ writer_failed' = log_fails
         /\ IF log_fails
            THEN /\ pc' = "raised"
                 /\ UNCHANGED <<iteration, global_step, lr, arrows, full_obs_arrow>>
            ELSE IF iteration < args.num_iterations
            THEN /\ iteration' = iteration + 1
                 /\ lr' = LrNow(args, iteration', lr)
                 /\ global_step' = global_step + args.batch_size
                 /\ arrows' = [i \in 1 .. args.num_steps |->
                                  IF i = 1 THEN full_obs_arrow ELSE hints[i - 1]]
                 /\ full_obs_arrow' = hints[args.num_steps]
                 /\ pc' = "optimize"
            ELSE /\ pc' = "closed"
                 /\ UNCHANGED <<iteration, global_step, lr, arrows, full_obs_arrow>>
    /\ UNCHANGED <<args, envs, step, next_done, last_gate, rewards, dones, values>>
    /\ UNCHANGED <<gaeVars, updateVars, envVars, twin, dqnVars, seedVars, mb_arrow>>

\* with the registered environment every hint is MainHint
LogAndCollect == LogAndCollectTo([i \in 1 .. args.num_steps |-> MainHint])

NextUpdate == Optimize \/ EpochHead \/ Minibatch \/ KLTest \/ LogAndCollect

SpecUpdate == InitUpdate /\ [][NextUpdate]_vars

\* the elements of a sequence
Range(q) == {q[i] : i \in DOMAIN q}

\* C14: when the minibatch loop of an epoch has ended, the index sets of the
\* minibatches it applied are pairwise disjoint, no minibatch holds an index
\* twice, and their union is {0, ..., batch_size - 1}.
C14_MinibatchesPartition ==
    pc = "kl" =>
        /\ \A i, j \in DOMAIN epoch_mb_inds :
              i # j => Range(epoch_mb_inds[i]) \cap Range(epoch_mb_inds[j]) = {}
        /\ \A i \in DOMAIN epoch_mb_inds :
              Cardinality(Range(epoch_mb_inds[i])) = Len(epoch_mb_inds[i])
        /\ UNION {Range(epoch_mb_inds[i]) : i \in DOMAIN epoch_mb_inds}
              = 0 .. args.batch_size - 1

\* an epoch over a shuffled batch has ended with a last minibatch shorter
\* than the others
C14_Witness ==
    /\ pc = "kl"
    /\ args.batch_size % args.num_minibatches # 0
    /\ b_inds # arange(args.batch_size)
    /\ Len(epoch_mb_inds) > 2
    /\ Len(epoch_mb_inds[Len(epoch_mb_inds)]) < Len(epoch_mb_inds[1])

\* C15: when batch_size is not a multiple of num_minibatches the program
\* stops with a configuration error at startup: no minibatch is ever applied
\* for such arguments.
C15_RemainderRejected ==
    pc \in {"minibatch", "kl", "log"} => args.batch_size % args.num_minibatches = 0

\* C16: the target-KL test is made only when the minibatch loop of the epoch
\* has consumed the whole batch; if a threshold is set and approx_kl exceeds
\* it, the iteration goes to its logging without another epoch, and otherwise
\* to the next epoch; epochs are entered in increasing order below
\* update_epochs, each iteration starting at epoch 0; an iteration ends
\* before update_epochs epochs only by the break, and never with no threshold.
C16_TargetKLBreak ==
    /\ [](pc = "kl" => start >= args.batch_size /\ epoch < args.update_epochs)
    /\ [](pc = "log" /\ epoch < args.update_epochs =>
             args.target_kl # NoTargetKL /\ approx_kl > args.target_kl)
    /\ [](pc = "log" /\ args.target_kl = NoTargetKL => epoch = args.update_epochs)
    /\ [][/\ (pc = "optimize" => epoch' = 0)
          /\ (pc # "optimize" => epoch' >= epoch)
          /\ (pc = "kl" /\ args.target_kl # NoTargetKL /\ approx_kl > args.target_kl
                => pc' = "log" /\ epoch' = epoch)
          /\ (pc = "kl" /\ (args.target_kl = NoTargetKL \/ approx_kl <= args.target_kl)
                => pc' = "epoch" /\ epoch' = epoch + 1)
          /\ (pc' = "log" => pc = "kl" \/ (pc = "epoch" /\ epoch = args.update_epochs))
         ]_vars

\* the second iteration runs its second epoch after the first iteration was
\* cut short by the test in its first epoch
C16_Witness ==
    /\ iteration = 2
    /\ pc = "kl"
    /\ epoch = 1
    /\ args.target_kl # NoTargetKL
    /\ args.update_epochs = 3
    /\ approx_kl > args.target_kl

----------------------------------------------------------------------------
(* The rollout loop's counters and stored rewards (SpecRollout) *)

\* a pass of the rollout loop whose envs.step returned
SlotFilled == IsRolloutStep /\ pc' # "raised"

\* C17: a run that reaches its end has made exactly
\* floor(total_timesteps / (num_envs * num_steps)) iterations; every iteration
\* starts at slot 0, each pass fills the slot `step` alone and moves to the
\* next one, and the advantage pass is reached with all num_steps slots
\* filled; at the head of the iteration loop global_step is
\* iteration * num_envs * num_steps, and it never exceeds total_timesteps.
C17_IterationsAndSlots ==
    /\ [](pc = "closed" =>
             iteration = args.total_timesteps \div (args.num_envs * args.num_steps))
    /\ [](pc = "learn" => step = args.num_steps)
    /\ [](pc = "loop" => global_step = iteration * args.num_envs * args.num_steps)
    /\ [](pc # "parsed" => global_step <= args.total_timesteps)
    /\ [][/\ (pc = "loop" /\ pc' = "rollout" => step' = 0 /\ iteration' = iteration + 1)
          /\ (SlotFilled =>
                /\ step < args.num_steps
                /\ step' = step + 1
                /\ \A i \in 1 .. args.num_steps :
                      i # step + 1 => /\ rewards'[i] = rewards[i]
                                      /\ dones'[i] = dones[i]
                                      /\ values'[i] = values[i])
          /\ (pc = "rollout" /\ pc' = "learn" => step' = args.num_steps)
         ]_vars

\* a run has ended after more than one iteration with timesteps left over
C17_Witness ==
    /\ pc = "closed"
    /\ iteration > 1
    /\ args.num_steps > 1
    /\ global_step < args.total_timesteps
    /\ global_step = iteration * args.num_envs * args.num_steps

\* C18: the reward stored in the slot of a step is the reward envs.step
\* returned for it minus compute_penalty when the actor-critic took the
\* heavy branch for the step's action, and that reward unchanged when it took
\* the cheap branch, on every step, the one that ends the episode included.
C18_PenaltyOnHeavyBranch ==
    [][SlotFilled =>
         \E action \in MiniGridActions :
            LET r == MainStep(envs, action)
            IN  /\ r.envs = envs'
                /\ rewards'[step + 1] =
                      IF HeavyBranch(last_gate')
                      THEN RSub(r.reward, compute_penalty)
                      ELSE r.reward]_vars

\* the step that ended the episode was taken on the heavy branch and its slot
\* holds the penalised reward, the slot before it an unpenalised one
C18_Witness ==
    /\ pc = "learn"
    /\ envs.step_count = MainMaxSteps
    /\ next_done = 1
    /\ step = 2
    /\ HeavyBranch(last_gate)
    /\ rewards[2] = RNeg(compute_penalty)
    /\ rewards[1] = RInt(0)

----------------------------------------------------------------------------
(* main_dqn.py: the environment with its random generator.  self.np_random *)
(* is a deterministic generator: reset(seed=s) replaces it by one whose     *)
(* state is a function of s, reset() keeps it, and every draw returns a     *)
(* function of the state and advances it.  The 128-bit generator of numpy   *)
(* is stood for by a full-period congruential generator over RngModulus     *)
(* states, a draw being the upper half / lower half of the state.           *)

\* seeds 0 .. MaxSeed are passed to reset
MaxSeed == 1

\* seeded or unseeded resets explored on each side of the episode threshold
SeedResets == 2

\* max_steps passed to the constructor: episodes of a few steps, which is
\* what a reset needs between itself and the next one
SeedMaxSteps == 3

Seeds == 0 .. MaxSeed

\* reset(seed=None)
NoSeed == 0 - 1

RngModulus == 16

\* the state after one draw
RngNext(s) == (5 * s + 3) % RngModulus

\* the state after n draws
RECURSIVE RngSkip(_, _)
RngSkip(s, n) == IF n = 0 THEN s ELSE RngSkip(RngNext(s), n - 1)

\* the draw of a state, as 0 (lower half of the range) or 1 (upper half)
RngBit(s) == s \div (RngModulus \div 2)

\* seeding.np_random(seed): the state of a generator made from a seed
SeedState(seed) == (7 * seed + 2) % RngModulus

\* a slip of reset: the seed is not handed to the generator
ResetGenerator_not_reseeded(seed, current) == current

\* super().reset(seed=seed): a new generator if a seed is given
ResetGenerator(seed, current) == IF seed = NoSeed THEN current ELSE SeedState(seed)

\* goal_choice = self.np_random.integers(2)
DrawGoalChoice(s) == RngBit(s)

\* the number of np_random.random() calls of one gen_obs
BoxDrawCount(episodes) == IF PastThreshold(episodes) THEN 0 ELSE 4

\* the boxes (1 .. 4, in the order of box_locations) whose
\* self.np_random.random() < 0.5 holds, drawn from state s on
DrawBoxes(s, episodes) ==
    {i \in 1 .. BoxDrawCount(episodes) : RngBit(RngSkip(s, i - 1)) = 0}

\* self.np_random.uniform(low=-1.0, high=1.0, size=self.action_space.n),
\* drawn from state s on; an entry is -1 or 0
DrawNoise(s) == [i \in 1 .. action_space_n |-> RngBit(RngSkip(s, i - 1)) - 1]

\* the draws of one gen_obs: the boxes, then the noise
GenObsDraws(s, episodes) ==
    [draws |-> DrawBoxes(s, episodes),
     noise |-> DrawNoise(RngSkip(s, BoxDrawCount(episodes))),
     np_random |-> RngSkip(s, BoxDrawCount(episodes) + action_space_n)]

\* the decoy cells of a grid (decoys are put on the four box cells only)
DecoysOf(g) == {c \in BoxCells(size, size) : grid_get(g, c, size) = "grey_goal"}

\* what a reset leaves and returns: on which side of the threshold the episode
\* is, the layout (the grid without what the box cells hold: walls, Goal,
\* Hazard), the decoys, the pose, the hint
Observed ==
    [past |-> PastThreshold(num_episodes),
     layout |-> ClearBoxes(grid, size, size),
     decoys |-> DecoysOf(grid),
     goal_position |-> goal_position,
     lava_position |-> lava_position,
     agent_pos |-> agent_pos,
     agent_dir |-> agent_dir,
     obs_arrow |-> obs_arrow]

\* after TMaze(size, max_steps); the generator is made on first use from
\* entropy of the operating system
InitSeed ==
    /\ Init!1
    /\ max_steps = InitMaxSteps(size, SeedMaxSteps)
    /\ Init!3 /\ Init!4 /\ Init!5 /\ Init!6 /\ Init!7
    /\ Init!8 /\ Init!9 /\ Init!10 /\ Init!11 /\ Init!12 /\ Init!13
    /\ Init!14 /\ Init!15
    /\ twin = NoTwin
    /\ DqnIdle
    /\ MainIdle
    /\ np_random \in 0 .. RngModulus - 1
    /\ seed_resets = [s \in Seeds |-> <<>>]

\* reset(seed=seed) from generator state `current`: the goal choice in
\* _gen_grid, then the draws of gen_obs
SeedResetTo(seed, episodes, current) ==
    LET s0 == ResetGenerator(seed, current)
        obs == GenObsDraws(RngNext(s0), episodes)
    IN  /\ ResetTo(episodes, DrawGoalChoice(s0), obs.draws, obs.noise)
        /\ np_random' = obs.np_random
        /\ seed_resets' = IF seed = NoSeed THEN seed_resets
                          ELSE [seed_resets EXCEPT ![seed] = Append(@, Observed')]

\* the single resets explored: the first SeedResets of the run and the first
\* SeedResets past the threshold
SeedResetExplored ==
    \/ num_episodes < SeedResets
    \/ /\ num_episodes >= path_episode_threshold
       /\ num_episodes < path_episode_threshold + SeedResets

\* one call of reset(seed=seed) or reset()
SeedReset ==
    /\ Alive
    /\ SeedResetExplored
    /\ \E seed \in Seeds \cup {NoSeed} :
         SeedResetTo(seed, NextEpisode(num_episodes), np_random)
    /\ UNCHANGED <<twin, dqnVars, mainVars>>

\* a run of consecutive reset() calls with no seed and no step in between, the
\* last of which brings the episode counter to the threshold; the generator
\* has advanced by the draws of the run
SeedResetRun ==
    /\ Alive
    /\ num_episodes + 1 < path_episode_threshold
    /\ \E current \in 0 .. RngModulus - 1 :
         SeedResetTo(NoSeed, path_episode_threshold, current)
    /\ UNCHANGED <<twin, dqnVars, mainVars>>

\* step(action) for one of the four movement actions, its gen_obs drawing
\* from the generator
SeedStep ==
    /\ Alive
    /\ Running
    /\ LET obs == GenObsDraws(np_random, num_episodes)
       IN  /\ \E action \in Actions : StepTo(action, obs.draws, obs.noise)
           /\ np_random' = obs.np_random
    /\ UNCHANGED <<twin, dqnVars, mainVars, seed_resets>>

NextSeed == SeedReset \/ SeedResetRun \/ SeedStep

SpecSeed == InitSeed /\ [][NextSeed]_vars

\* two recorded resets left the same layout and the same start pose
SameLayoutAndPose(r1, r2) ==
    /\ r1.goal_position = r2.goal_position
    /\ r1.lava_position = r2.lava_position
    /\ r1.layout = r2.layout
    /\ r1.agent_pos = r2.agent_pos
    /\ r1.agent_dir = r2.agent_dir

\* two recorded resets returned the same hint and left the same decoys
SameHintAndDecoys(r1, r2) ==
    /\ r1.obs_arrow = r2.obs_arrow
    /\ r1.decoys = r2.decoys

\* C19 as stated: any two resets with the same seed, wherever they fall in
\* the run, leave the same layout and start pose and return the same hint
\* vector and decoy placement.
C19_SeededResetIdentical ==
    \A s \in DOMAIN seed_resets :
       \A i, j \in DOMAIN seed_resets[s] :
          /\ SameLayoutAndPose(seed_resets[s][i], seed_resets[s][j])
          /\ SameHintAndDecoys(seed_resets[s][i], seed_resets[s][j])

\* C19, amended: any two resets with the same seed leave the same layout and
\* start pose; they return the same hint vector and decoy placement when both
\* episodes are on the same side of the episode threshold.
C19_SeededResetSameSide ==
    \A s \in DOMAIN seed_resets :
       \A i, j \in DOMAIN seed_resets[s] :
          /\ SameLayoutAndPose(seed_resets[s][i], seed_resets[s][j])
          /\ seed_resets[s][i].past = seed_resets[s][j].past
                => SameHintAndDecoys(seed_resets[s][i], seed_resets[s][j])

\* one seed was used for two resets before the threshold and for two resets
\* past it, the generator was drawn from after the last of them, and the
\* first observations of the two sides differ
C19_Witness ==
    \E s \in DOMAIN seed_resets :
       /\ Len(seed_resets[s]) = 4
       /\ ~seed_resets[s][2].past
       /\ seed_resets[s][3].past
       /\ seed_resets[s][1].decoys # {}
       /\ ~SameHintAndDecoys(seed_resets[s][2], seed_resets[s][3])
       /\ np_random # RngSkip(SeedState(s), 1 + action_space_n)

----------------------------------------------------------------------------
(* Scripted action sequences on the size-9 grid of main_dqn.py (Spec) *)

\* the actions seq[i], seq[i + 1], ... run from grid g and position pos after
\* k steps: whatever decoys the observations in between draw, no action before
\* the last ends the episode and the last returns terminated = True,
\* truncated = False and the reward 1 - 0.9 * (Len(seq) / max_steps)
RECURSIVE ScriptEnds(_, _, _, _, _)
ScriptEnds(g, pos, k, seq, i) ==
    LET fwd_cell == grid_get(g, fwd_pos(pos, seq[i]), size)
        nxt == StepPos(g, pos, seq[i], size)
    IN  IF i = Len(seq)
        THEN /\ StepTerminated(fwd_cell)
             /\ ~StepTruncated(k + 1, max_steps)
             /\ StepReward(fwd_cell, k + 1, max_steps) = _reward(Len(seq), max_steps)
        ELSE /\ ~StepTerminated(fwd_cell)
             /\ ~StepTruncated(k + 1, max_steps)
             /\ \A draws \in BoxDraws(num_episodes) :
                   ScriptEnds(GenObsGrid(g, nxt, goal_position, num_episodes,
                                         size, size, draws),
                              nxt, k + 1, seq, i + 1)

\* an episode on the size-9 grid with the Goal in the left corner has just
\* been reset
FreshLeftGoalEpisode ==
    /\ Started
    /\ size = 9
    /\ step_count = 0
    /\ agent_pos = StartPos(size, size)
    /\ GoalLeft

\* C20 as stated: on the size-9 grid with the Goal in the left corner, some
\* sequence of 4 actions from the start ends the episode with
\* terminated = True, truncated = False and reward 1 - 0.9 * (4 / max_steps).
C20_FourStepScript ==
    FreshLeftGoalEpisode =>
        \E seq \in [1 .. 4 -> Actions] : ScriptEnds(grid, agent_pos, 0, seq, 1)

\* six times forward up the corridor, three times left along the top row
GoalScript == <<forward, forward, forward, forward, forward, forward,
                left, left, left>>

\* the cell the agent is on before action i of GoalScript (after the last
\* action for i = Len(GoalScript) + 1)
RECURSIVE ScriptCell(_)
ScriptCell(i) ==
    IF i = 1 THEN StartPos(9, 9)
    ELSE fwd_pos(ScriptCell(i - 1), GoalScript[i - 1])

\* C20, amended: on the size-9 grid with the Goal in the left corner, the
\* sequence of 9 actions forward x 6, left x 3 can always be run from the
\* start (each of its moves is open whatever decoys are drawn) and leads onto
\* the Goal; the agent is never on the Goal after fewer than 9 steps, and after
\* exactly 9 the episode has ended with terminated = True, truncated = False
\* and reward 1 - 0.9 * (9 / max_steps).
C20_NineStepScript ==
    Started /\ size = 9 /\ GoalLeft =>
        /\ ScriptCell(Len(GoalScript) + 1) = goal_position
        /\ \A i \in 1 .. Len(GoalScript) :
              Running /\ agent_pos = ScriptCell(i) =>
                 StepPos(grid, agent_pos, GoalScript[i], size) = ScriptCell(i + 1)
        /\ agent_pos = goal_position => step_count >= Len(GoalScript)
        /\ agent_pos = goal_position /\ step_count = Len(GoalScript) =>
              /\ terminated
              /\ ~truncated
              /\ reward = _reward(Len(GoalScript), max_steps)

\* the episode has ended on the Goal after exactly the nine steps
C20_Witness ==
    /\ Started
    /\ size = 9
    /\ GoalLeft
    /\ agent_pos = LeftCorner
    /\ step_count = Len(GoalScript)
    /\ terminated
    /\ ~truncated
    /\ reward = _reward(Len(GoalScript), max_steps)

----------------------------------------------------------------------------
(* The static map of main_dqn.py under observation (Spec) *)

\* the cells _gen_grid makes a Wall for the current size
WallCells == {c \in Cells(size) : grid_get(WallsOf[size], c, size) = "wall"}

\* C21: for grid sizes 9 and 11, every cell that reset made a Wall, the Goal
\* or the Hazard keeps that kind through every step and every observation of
\* the episode: whatever observations were generated since _gen_grid ran, the
\* walls are walls, the Goal cell holds the Goal, the Hazard cell the Hazard.
C21_StaticMapKept ==
    Started =>
        /\ \A c \in WallCells : grid_get(grid, c, size) = "wall"
        /\ grid_get(grid, goal_position, size) = "goal"
        /\ grid_get(grid, lava_position, size) = "lava"

----------------------------------------------------------------------------
(* main.py: failures of the logging calls (SpecRollout) *)

\* C22: a failure of a writer.add_scalar call of the training loop (the
\* episodic-return scalars of the rollout, the loss scalars of the iteration)
\* does not stop training: the program goes on after it.
C22_LoggingFailureNotFatal ==
    [][(writer_failed' /\ ~writer_failed) => pc' # "raised"]_vars

----------------------------------------------------------------------------
(* main_dqn.py: the constructor and reset on other sizes.  The assertions  *)
(* are those of _gen_grid and of minigrid's Grid, on which the calls of    *)
(* TMaze end.                                                              *)

\* Grid(width, height), called by MiniGridEnv.__init__: assert width >= 3,
\* assert height >= 3
GridRaises(width, height) == width < 3 \/ height < 3

\* a slip of _gen_grid: the assertion left out
OddSize_unchecked(width, height) == TRUE

\* assert width % 2 == 1 and height % 2 == 1
OddSize(width, height) == width % 2 = 1 /\ height % 2 = 1

\* Grid.get / Grid.set: assert 0 <= i < self.width, assert 0 <= j < self.height
InGrid(c, width, height) ==
    /\ 0 <= c[1] /\ c[1] < width
    /\ 0 <= c[2] /\ c[2] < height

\* gen_obs: the grid.set of a candidate cell outside the grid raises
GenObsRaises(width, height) ==
    \E i \in 1 .. 4 : ~InGrid(box_locations(width, height)[i], width, height)

\* the grid left by the clearing loop of a gen_obs that raises: the candidates
\* before the first one outside the grid are cleared
RECURSIVE ClearUntilRaise(_, _, _, _)
ClearUntilRaise(g, i, width, height) ==
    IF i > 4 \/ ~InGrid(box_locations(width, height)[i], width, height) THEN g
    ELSE ClearUntilRaise(put_obj(g, "none", box_locations(width, height)[i], width),
                         i + 1, width, height)

\* the exception of a failed assert statement
AssertionRaised == "AssertionError"

\* after TMaze(size, max_steps) for a size in TrialSizes; the constructor may
\* have raised
InitSizes ==
    /\ size \in TrialSizes
    /\ Init!2 /\ Init!3 /\ Init!4 /\ Init!5 /\ Init!6 /\ Init!7
    /\ Init!8 /\ Init!9 /\ Init!10 /\ Init!11 /\ Init!12 /\ Init!13
    /\ Init!14
    /\ raised = IF GridRaises(size, size) THEN AssertionRaised ELSE "none"
    /\ twin = NoTwin
    /\ DqnIdle
    /\ MainIdle
    /\ SeedIdle

\* reset() whose _gen_grid fails on its first line: the episode counter is
\* incremented, MiniGridEnv.reset has set the pose to (-1, -1), -1
SizeResetRejected ==
    /\ num_episodes' = NextEpisode(num_episodes)
    /\ agent_pos' = NoPos
    /\ agent_dir' = 0 - 1
    /\ raised' = AssertionRaised
    /\ UNCHANGED <<size, max_steps, grid, step_count, goal_position, lava_position,
                   arrow_q_values, obs_arrow, reward, terminated, truncated>>

\* reset() whose _gen_grid returns and whose gen_obs raises in its clearing
\* loop: no observation is returned
SizeResetObsRaises(goal_choice) ==
    /\ num_episodes' = NextEpisode(num_episodes)
    /\ goal_position' = GoalPosition(size, goal_choice)
    /\ lava_position' = LavaPosition(size, goal_choice)
    /\ arrow_q_values' = ArrowQValues(goal_position', size)
    /\ agent_pos' = StartPos(size, size)
    /\ agent_dir' = StartDir
    /\ step_count' = 0
    /\ grid' = ClearUntilRaise(GenGrid(size, size, goal_choice), 1, size, size)
    /\ raised' = AssertionRaised
    /\ UNCHANGED <<size, max_steps, obs_arrow, reward, terminated, truncated>>

\* one call of reset() on an environment whose constructor returned
SizeReset ==
    /\ Alive
    /\ ResetExplored
    /\ \E goal_choice \in GoalChoices, noise \in NoiseVectors :
         \E draws \in BoxDraws(NextEpisode(num_episodes)) :
            IF ~OddSize(size, size) THEN SizeResetRejected
            ELSE IF GenObsRaises(size, size) THEN SizeResetObsRaises(goal_choice)
            ELSE ResetTo(NextEpisode(num_episodes), goal_choice, draws, noise)
    /\ UNCHANGED <<twin, dqnVars, mainVars, seedVars>>

\* step(action): grid.get of a cell outside the grid raises
SizeStep ==
    /\ Alive
    /\ Running
    /\ \E action \in Actions, noise \in NoiseVectors :
         \E draws \in BoxDraws(num_episodes) :
            IF InGrid(fwd_pos(agent_pos, action), size, size)
            THEN StepTo(action, draws, noise)
            ELSE /\ step_count' = step_count + 1
                 /\ raised' = AssertionRaised
                 /\ UNCHANGED <<size, max_steps, grid, agent_pos, agent_dir,
                                num_episodes, goal_position, lava_position,
                                arrow_q_values, obs_arrow, reward, terminated,
                                truncated>>
    /\ UNCHANGED <<twin, dqnVars, mainVars, seedVars>>

NextSizes == SizeReset \/ SizeStep

SpecSizes == InitSizes /\ [][NextSizes]_vars

\* the T-shape can be laid out on a grid of size sz: the two corners lie on
\* either side of the decision cell and the start cell lies below it, inside
\* the surrounding wall
TShapeFits(sz) ==
    LET corners == goal_positions(sz)
        decision == <<(sz - 1) \div 2, 1>>
        begin == StartPos(sz, sz)
    IN  /\ 0 < corners[1][1]
        /\ corners[1][1] < decision[1]
        /\ decision[1] < corners[2][1]
        /\ corners[2][1] < sz - 1
        /\ decision[2] < begin[2]
        /\ begin[2] < sz - 1

\* C23: an environment whose grid size is even, or is smaller than the
\* smallest size on which the T-shape can be laid out, is rejected with an
\* error before any episode starts: the constructor or the first reset has
\* raised, no reset has returned an observation and no step is ever taken.
C23_BadSizeRejected ==
    (size % 2 = 0 \/ ~TShapeFits(size)) =>
        /\ step_count = 0
        /\ ~terminated /\ ~truncated
        /\ obs_arrow = [i \in 1 .. action_space_n |-> 0]
        /\ num_episodes <= 1
        /\ num_episodes = 1 => raised = AssertionRaised
        /\ GridRaises(size, size) => raised = AssertionRaised /\ num_episodes = 0

\* the first reset on the odd size 3, too small for the T-shape, has raised
C23_Witness ==
    /\ size = 3
    /\ ~TShapeFits(size)
    /\ num_episodes = 1
    /\ raised = AssertionRaised

----------------------------------------------------------------------------
(* main_dqn.py: movement and facing (Spec) *)

\* C24: the four actions are absolute movements: a step with left (0) whose
\* target cell is not a wall moves the agent by (-1, 0), with forward (1) by
\* (0, -1), with right (2) by (+1, 0), with backward (3) by (0, +1); the
\* facing direction is 3 from reset on and no step changes it.
C24_AbsoluteMovement ==
    /\ [](Started => agent_dir = 3)
    /\ [][ /\ IsStep => agent_dir' = agent_dir
           /\ \A action \in 0 .. 3 :
                (StepTaken(action)
                    /\ grid_get(grid, Target(agent_pos, action), size) # "wall") =>
                    /\ action = 0 => agent_pos' = <<agent_pos[1] - 1, agent_pos[2]>>
                    /\ action = 1 => agent_pos' = <<agent_pos[1], agent_pos[2] - 1>>
                    /\ action = 2 => agent_pos' = <<agent_pos[1] + 1, agent_pos[2]>>
                    /\ action = 3 => agent_pos' = <<agent_pos[1], agent_pos[2] + 1>>
          ]_vars

\* the agent has gone up the corridor and one cell to the left in the top
\* row, still facing 3
C24_Witness ==
    /\ Started
    /\ agent_pos = <<DecisionCell[1] - 1, 1>>
    /\ step_count = size - 2
    /\ agent_dir = 3
    /\ ~terminated

----------------------------------------------------------------------------
(* main.py: the annealing of the learning rate (SpecRollout) *)

\* the run anneals and has at least one iteration
Annealing == pc # "parsed" /\ args.anneal_lr /\ args.num_iterations > 0

\* the learning rate of iteration i of N: learning_rate * (1 - (i - 1) / N)
AnnealedRate(i) ==
    RMul(args.learning_rate, Rat(args.num_iterations - (i - 1), args.num_iterations))

\* the parts of C25 on the rate of each iteration: with annealing, the rate
\* used in iteration i (1 <= i <= N) is learning_rate * (1 - (i - 1) / N), it
\* is learning_rate in the first iteration, and it decreases by
\* learning_rate / N from each iteration to the next
RatePerIteration ==
    /\ [](Annealing /\ pc \in {"rollout", "learn"} =>
             /\ iteration >= 1 /\ iteration <= args.num_iterations
             /\ lr = AnnealedRate(iteration)
             /\ iteration = 1 => lr = args.learning_rate)
    /\ [][Annealing /\ pc = "loop" /\ pc' = "rollout" /\ iteration >= 1 =>
             lr' = RSub(lr, RMul(args.learning_rate, Rat(1, args.num_iterations)))
         ]_vars

\* C25 as stated: with annealing, the rate of iteration i is
\* learning_rate * (1 - (i - 1) / N), equal to learning_rate in the first
\* iteration, decreasing by learning_rate / N per iteration, and it reaches
\* zero across the run: a run that has ended has brought the rate to zero.
C25_AnnealedToZero ==
    /\ RatePerIteration
    /\ [](Annealing /\ pc = "closed" => lr = RInt(0))

\* C25, amended: with annealing, the rate of iteration i is
\* learning_rate * (1 - (i - 1) / N), equal to learning_rate in the first
\* iteration, decreasing by learning_rate / N per iteration; the rate of the
\* last iteration is learning_rate / N, and the rate is positive throughout
\* the run: it never reaches zero.
C25_AnnealedToLastStep ==
    /\ RatePerIteration
    /\ [](Annealing /\ pc = "closed" =>
             lr = RMul(args.learning_rate, Rat(1, args.num_iterations)))
    /\ [](Annealing => lr[1] > 0)

\* a run of three iterations has ended with the rate at a third of
\* learning_rate
C25_Witness ==
    /\ pc = "closed"
    /\ args.anneal_lr
    /\ args.num_iterations = 3
    /\ iteration = 3
    /\ lr = RMul(args.learning_rate, Rat(1, 3))

----------------------------------------------------------------------------
(* main.py: the hint handed to the minibatch re-evaluation.  The training  *)
(* loop takes obs["arrow"] from the environment that env_id names; the     *)
(* registered TMaze returns 0.0 in every observation, so the optimisation  *)
(* is run here over rollouts whose hints take two values, which shows      *)
(* where the value handed to the actor-critic comes from.                  *)

\* hint values of the observations
Hints == {0, 1}

\* command lines explored: one environment, three steps, two iterations,
\* one and three minibatches
HintArgs ==
    {SetupArgs([NoArgs EXCEPT !.num_steps = 3, !.total_timesteps = 6,
                             !.num_minibatches = nm, !.update_epochs = 2]) :
        nm \in {1, 3}}

\* at line 573 of the first iteration, after a rollout with any hints
InitHint ==
    /\ EnvIdle
    /\ args \in HintArgs
    /\ pc = "optimize"
    /\ writer_failed = FALSE
    /\ lr = args.learning_rate
    /\ envs = <<>>
    /\ iteration = 1
    /\ step = args.num_steps
    /\ global_step = args.batch_size
    /\ next_done = 0
    /\ last_gate = 0
    /\ rewards = <<>>
    /\ dones = <<>>
    /\ values = <<>>
    /\ GaeIdle
    /\ UpdateIdle
    /\ arrows \in [1 .. args.num_steps -> Hints]
    /\ full_obs_arrow \in Hints
    /\ mb_arrow = NoHint

\* the logging and the next iteration's rollout, with any hints
HintCollect == \E hints \in [1 .. args.num_steps -> Hints] : LogAndCollectTo(hints)

NextHint == Optimize \/ EpochHead \/ Minibatch \/ KLTest \/ HintCollect

SpecHint == InitHint /\ [][NextHint]_vars

\* a pass of the minibatch loop that re-evaluates a minibatch
Reevaluates == pc = "minibatch" /\ start < args.batch_size

\* a minibatch of the current iteration has been re-evaluated
ReevaluatedInIteration ==
    \/ pc \in {"kl", "log"}
    \/ pc = "minibatch" /\ start > 0
    \/ pc = "epoch" /\ epoch > 0

\* C26: in every minibatch re-evaluation of an iteration the hint passed to
\* the actor-critic is the hint of the observation returned by the last
\* environment step of the rollout (full_obs["arrow"]), whatever the hints
\* recorded in the rollout storage are; it is the same value for every
\* minibatch and epoch of the iteration, and the optimisation changes neither
\* that observation nor the storage.
C26_LastHintReused ==
    /\ [](ReevaluatedInIteration => mb_arrow = full_obs_arrow)
    /\ [][ /\ Reevaluates => mb_arrow' = full_obs_arrow
           /\ pc \in {"optimize", "epoch", "minibatch", "kl"} =>
                 UNCHANGED <<arrows, full_obs_arrow>> ]_vars

\* the second epoch of the second iteration has re-evaluated three
\* minibatches with the last hint while every recorded hint is the other value
C26_Witness ==
    /\ iteration = 2
    /\ pc = "kl"
    /\ epoch = 1
    /\ Len(epoch_mb_inds) = 3
    /\ \A i \in 1 .. args.num_steps : arrows[i] # full_obs_arrow
    /\ mb_arrow = full_obs_arrow

----------------------------------------------------------------------------
(* main_dqn.py: where a reward is given (Spec) *)

\* C27: for grid sizes 9 and 11, a step returns a positive reward only when
\* it moves the agent onto the episode's Goal corner cell; no step ends the
\* episode with a positive reward by entering another cell, a decoy cell in
\* particular.
C27_RewardOnlyOnGoalCorner ==
    [][(IsStep /\ reward' > 0) =>
            /\ agent_pos' = goal_position
            /\ agent_pos' \in {LeftCorner, RightCorner} ]_vars

----------------------------------------------------------------------------
(* main_dqn.py: the decoys of consecutive observations (Spec) *)

\* the candidate cells with the given indices of box_locations
BoxCellsAt(draws) == {box_locations(size, size)[i] : i \in draws}

\* C28: while num_episodes <= threshold, each observation first clears all
\* four candidate cells and then places decoys afresh: from every state of a
\* running episode, whatever decoys the grid holds and whichever cell the
\* step moves the agent to, the observation of the next step leaves exactly
\* the drawn candidates occupied, for each of the 16 subsets of the four; the
\* decoys of an observation lie on candidate cells only.
C28_DecoysPlacedAfresh ==
    (Started /\ num_episodes <= 2000) =>
        /\ Decoys \subseteq BoxCells(size, size)
        /\ (Alive /\ Running) =>
              \A action \in Actions, draws \in SUBSET (1 .. 4) :
                 /\ draws \in BoxDraws(num_episodes)
                 /\ DecoysOf(GenObsGrid(grid, StepPos(grid, agent_pos, action, size),
                                        goal_position, num_episodes, size, size,
                                        draws))
                       = BoxCellsAt(draws)

\* before the threshold the agent stands on a candidate cell, the episode
\* goes on, and the last observation put a decoy on that cell and on one
\* other candidate
C28_Witness ==
    /\ Started
    /\ num_episodes <= 2000
    /\ step_count > 2
    /\ ~terminated
    /\ agent_pos = left_box(size, size)
    /\ agent_pos \in Decoys
    /\ Cardinality(Decoys) = 2

----------------------------------------------------------------------------
(* main_dqn.py: the end of an episode (Spec) *)

\* C29: no step returns terminated = True and truncated = True together:
\* after each step the episode is in exactly one of Running (both False),
\* Terminated and Truncated.
C29_TerminatedOrTruncated == ~(terminated /\ truncated)

----------------------------------------------------------------------------
(* main_dqn.py: the training program, its loop over global_step and what it
   hands to the replay buffer (SpecDqn) *)

\* the size "MiniGrid-TMaze-v0-custom" is registered with
RegisteredSize == 11

\* args.total_timesteps, kept small
DqnSteps == 14

\* floating-point numbers are kept as the rationals they are, with
\* Precision bits of mantissa (53 in the program) and no bound on the exponent
Precision == 8

\* x = num / den * 2^e with 2^(Precision-1) <= num / den < 2^Precision
RECURSIVE Normalized(_, _, _)
Normalized(num, den, e) ==
    IF num >= den * 2 ^ Precision THEN Normalized(num, den * 2, e + 1)
    ELSE IF num < den * 2 ^ (Precision - 1) THEN Normalized(num * 2, den, e - 1)
    ELSE <<num, den, e>>

\* num / den rounded to the nearest integer, ties to even
RoundHalfEven(num, den) ==
    LET q == num \div den
        r == num % den
    IN  IF 2 * r > den \/ (2 * r = den /\ q % 2 = 1) THEN q + 1 ELSE q

\* the floating-point number nearest to the rational x
Fl(x) ==
    IF x[1] = 0 THEN RInt(0)
    ELSE LET nz == Normalized(Abs(x[1]), x[2], 0)
             m == RoundHalfEven(nz[1], nz[2])
             sgn == IF x[1] < 0 THEN 0 - 1 ELSE 1
         IN  IF nz[3] >= 0 THEN Rat(sgn * m * 2 ^ nz[3], 1)
             ELSE Rat(sgn * m, 2 ^ (0 - nz[3]))

\* the operations of Python floats: the exact result, rounded
FAdd(x, y) == Fl(RAdd(x, y))
FSub(x, y) == Fl(RSub(x, y))
FMul(x, y) == Fl(RMul(x, y))
FDiv(x, y) == Fl(Rat(x[1] * y[2] * (IF y[1] < 0 THEN 0 - 1 ELSE 1),
                     x[2] * Abs(y[1])))
RLeq(x, y) == x[1] * y[2] <= y[1] * x[2]
FMax(x, y) == IF RLeq(y, x) THEN x ELSE y

\* a slip of the schedule: the value is not held at end_e
linear_schedule_unclamped(start_e, end_e, duration, tt) ==
    FAdd(FMul(FDiv(FSub(end_e, start_e), duration), RInt(tt)), start_e)

\* slope = (end_e - start_e) / duration;
\* return max(slope * t + start_e, end_e)
linear_schedule(start_e, end_e, duration, tt) ==
    LET slope == FDiv(FSub(end_e, start_e), duration)
    IN  FMax(FAdd(FMul(slope, RInt(tt)), start_e), end_e)

\* the defaults of Args
learning_starts == 10000
train_frequency == 10
target_network_frequency == 500

\* the arguments of the run of SpecDqn: the defaults, total_timesteps aside
DqnArgs ==
    [total_timesteps |-> DqnSteps, tau |-> RInt(1),
     target_network_frequency |-> target_network_frequency,
     start_e |-> RInt(1), end_e |-> Fl(Rat(1, 20)),
     exploration_fraction |-> Rat(1, 2),
     learning_starts |-> learning_starts, train_frequency |-> train_frequency]

\* epsilon = linear_schedule(args.start_e, args.end_e,
\*     args.exploration_fraction * args.total_timesteps, global_step)
Epsilon(a, g) ==
    linear_schedule(a.start_e, a.end_e,
                    FMul(a.exploration_fraction, RInt(a.total_timesteps)), g)

\* a slip of the training: learning starts at learning_starts itself
LearningStarted_at_start(a, g) == g >= a.learning_starts

\* if global_step > args.learning_starts
LearningStarted(a, g) == g > a.learning_starts

\* q_state.apply_gradients(grads=grads) of update: the step counter of the
\* TrainState grows by one, the weight moves by the optimizer's step
apply_gradients(q) ==
    [q EXCEPT !.step = q.step + 1, !.params = RAdd(q.params, RInt(1))]

\* optax.incremental_update(new_tensors, old_tensors, step_size)
incremental_update(new, old, step_size) ==
    RAdd(RMul(step_size, new), RMul(RSub(RInt(1), step_size), old))

\* lines 1014-1050: the gradient step every train_frequency steps and the
\* replacement of the target parameters every target_network_frequency
\* steps, both only once learning has started
Training(q, a, g) ==
    LET trained == IF LearningStarted(a, g) /\ g % a.train_frequency = 0
                   THEN apply_gradients(q) ELSE q
    IN  IF LearningStarted(a, g) /\ g % a.target_network_frequency = 0
        THEN [trained EXCEPT !.target_params =
                 incremental_update(trained.params, trained.target_params, a.tau)]
        ELSE trained

\* TrainState.create(...) and the replacement of line 884, which makes the
\* target parameters the online ones
FirstTrainState == [step |-> 0, params |-> RInt(0), target_params |-> RInt(0)]

\* the observation the wrapped environment returns: the image renders the
\* grid with the agent on it and is kept as the agent's position, the arrow
\* is the vector gen_obs returns
CurrentObs == [image |-> agent_pos, arrow |-> obs_arrow]

\* after make_env(...): the registered TMaze behind its wrappers, nothing
\* reset yet, the program before its first envs.reset
InitDqn ==
    /\ size = RegisteredSize
    /\ max_steps = InitMaxSteps(size, 0)
    /\ Init!3 /\ Init!4 /\ Init!5 /\ Init!6 /\ Init!7
    /\ Init!8 /\ Init!9 /\ Init!10 /\ Init!11 /\ Init!12 /\ Init!13
    /\ Init!14 /\ Init!15
    /\ twin = NoTwin
    /\ dqn = [pc |-> "start", args |-> DqnArgs]
    /\ rb = <<>>
    /\ epsilon = <<>>
    /\ q_state = FirstTrainState
    /\ MainIdle
    /\ SeedIdle

\* obs, _ = envs.reset(seed=args.seed), twice (the first result is used only
\* to build the network), then terminations = truncations = [False]
DqnStart ==
    /\ dqn.pc = "start"
    /\ \E goal_choice \in GoalChoices, noise \in NoiseVectors :
         \E draws \in BoxDraws(NextEpisode(NextEpisode(num_episodes))) :
            ResetTo(NextEpisode(NextEpisode(num_episodes)), goal_choice,
                    draws, noise)
    /\ dqn' = [pc |-> "loop", args |-> dqn.args, global_step |-> 0,
               obs |-> CurrentObs', next_obs |-> <<>>, rewards |-> 0,
               terminations |-> FALSE, truncations |-> FALSE]
    /\ UNCHANGED <<rb, epsilon, q_state, twin, mainVars, seedVars>>

\* what rb.add is handed at the end of a pass
Added(o, next_o, action, r, done, position) ==
    [obs |-> o, next_obs |-> next_o, actions |-> action,
     rewards |-> r, terminations |-> done, pos |-> position]

\* one pass of `for global_step in range(args.total_timesteps)` whose
\* previous pass ended an episode: envs.reset() replaces obs, the flags are
\* cleared, next_obs and rewards keep the values of the previous pass; then
\* rb.add(...) and obs = next_obs
DqnResetPass(action) ==
    /\ \E goal_choice \in GoalChoices, noise \in NoiseVectors :
         \E draws \in BoxDraws(NextEpisode(num_episodes)) :
            ResetTo(NextEpisode(num_episodes), goal_choice, draws, noise)
    /\ rb' = Added(CurrentObs', dqn.next_obs, action, dqn.rewards, FALSE,
                   dqn.global_step)
    /\ dqn' = [dqn EXCEPT !.obs = dqn.next_obs,
                          !.terminations = FALSE,
                          !.truncations = FALSE,
                          !.global_step = dqn.global_step + 1]

\* one pass whose previous pass left the episode running: envs.step(actions),
\* then rb.add(...) and obs = next_obs
DqnStepPass(action) ==
    /\ \E noise \in NoiseVectors :
         \E draws \in BoxDraws(num_episodes) : StepTo(action, draws, noise)
    /\ rb' = Added(dqn.obs, CurrentObs', action, reward', terminated',
                   dqn.global_step)
    /\ dqn' = [dqn EXCEPT !.obs = CurrentObs',
                          !.next_obs = CurrentObs',
                          !.rewards = reward',
                          !.terminations = terminated',
                          !.truncations = truncated',
                          !.global_step = dqn.global_step + 1]

\* one pass of the loop: epsilon, the action (the network's or a sampled
\* one), the step or the reset, rb.add, and the training
DqnPass ==
    /\ dqn.pc = "loop"
    /\ dqn.global_step < dqn.args.total_timesteps
    /\ epsilon' = Epsilon(dqn.args, dqn.global_step)
    /\ \E action \in Actions :
         IF dqn.terminations \/ dqn.truncations
         THEN DqnResetPass(action)
         ELSE DqnStepPass(action)
    /\ q_state' = Training(q_state, dqn.args, dqn.global_step)
    /\ UNCHANGED <<twin, mainVars, seedVars>>

\* the loop is over: envs.close()
DqnClose ==
    /\ dqn.pc = "loop"
    /\ dqn.global_step = dqn.args.total_timesteps
    /\ dqn' = [dqn EXCEPT !.pc = "closed"]
    /\ UNCHANGED <<envVars, rb, epsilon, q_state, twin, mainVars, seedVars>>

NextDqn == DqnStart \/ DqnPass \/ DqnClose

SpecDqn == InitDqn /\ [][NextDqn]_vars

\* C30: every transition added to the replay buffer is a real transition of
\* the environment: the pass that adds it has executed one step of the
\* environment from the state whose observation is stored as obs, and
\* next_obs, rewards and terminations are what that step returned; also in
\* the passes that follow the end of an episode.
C30_RealTransitions ==
    [][(rb' # rb) =>
          /\ rb'.obs = CurrentObs
          /\ num_episodes' = num_episodes
          /\ step_count' = step_count + 1
          /\ rb'.next_obs = CurrentObs'
          /\ rb'.rewards = reward'
          /\ rb'.terminations = terminated']_vars

\* C31: every action passed to envs.step was selected from the observation
\* the environment returned last (by reset or by the previous step): in a
\* pass that steps the environment, the loop's obs, from which the action of
\* the pass was chosen, is the environment's latest observation.
C31_ActionFromLatestObs ==
    [][(dqn.pc = "loop" /\ step_count' = step_count + 1)
          => dqn.obs = CurrentObs]_vars

----------------------------------------------------------------------------
(* main.py: the rollout loop followed by the advantage pass (SpecAdvantage) *)

\* the run longer than an episode can last
InitLong ==
    /\ InitRollout
    /\ args.total_timesteps = MainMaxSteps + ExtraSteps

\* the rollout loop with the advantage pass of lines 545-563 taken step by
\* step after it, over the slots the rollout filled (InitLong) and over the
\* slots of InitGAE
NextAdvantage == NextRollout \/ NextGAE

SpecAdvantage == (InitLong \/ InitGAE) /\ [][NextAdvantage]_vars

\* the done flag that follows slot tt (tt = 0 .. T - 1): dones[tt + 1], and
\* next_done for the last slot
DoneAfter(tt) == IF tt = args.num_steps - 1 THEN next_done ELSE dones[tt + 2]

\* when the pass has ended, a slot whose step ended an episode has the
\* advantage rewards[t] - values[t]
NoLeakAcrossEpisodes ==
    pc \in {"returns", "flatten"} =>
       \A tt \in 0 .. args.num_steps - 1 :
          DoneAfter(tt) = 1 =>
             advantages[tt + 1] = RSub(rewards[tt + 1], values[tt + 1])

\* the done flag a pass of the rollout loop stores in its slot is next_done,
\* which is 0 when the first iteration starts, is written by the passes of
\* the rollout loop only, and is then the flag of the step of that pass
DoneFlagCarried ==
    /\ (pc = "rollout" /\ pc' # "raised") =>
          /\ dones'[step + 1] = next_done
          /\ \E action \in MiniGridActions :
                LET r == MainStep(envs, action)
                IN  /\ envs' = r.envs
                    /\ next_done' = IF r.terminated \/ r.truncated THEN 1 ELSE 0
    /\ (pc # "rollout" /\ pc # "parsed") => next_done' = next_done
    /\ (pc = "parsed") => next_done' = 0

\* C32: advantages do not leak across episode boundaries: if the step of
\* slot t ended an episode (dones[t+1] = 1, next_done = 1 for the last slot)
\* then advantages[t] = rewards[t] - values[t], whatever values[t+1], the
\* bootstrap value and the later advantages are; and dones[0] of an iteration
\* is the done flag returned by the last step of the previous iteration (0
\* in the first iteration).
C32_NoLeakAcrossEpisodes ==
    /\ []NoLeakAcrossEpisodes
    /\ [][DoneFlagCarried]_vars

\* the pass has ended over the slots of an iteration that started with
\* dones[0] = 1 and whose first step returned a done flag again
C32_Witness ==
    /\ pc = "flatten"
    /\ iteration > 1
    /\ args.num_steps = 2
    /\ dones[1] = 1
    /\ dones[2] = 1
    /\ advantages[1] = RSub(rewards[1], values[1])
    /\ next_value # RInt(0)

----------------------------------------------------------------------------
(* main_dqn.py: the registered environment and the comment above its
   registration (SpecDqn) *)

\* "Optimal reward would be: 1 - 0.9 * (12 / 484)": the steps and the
\* max_steps of the comment
CommentSteps == 12
CommentMaxSteps == 484

\* C33: in the registered size-11 environment the Goal is not reached in
\* fewer than 12 steps from the start cell, and the reward for reaching it
\* in exactly 12 is 1 - 0.9 * (12 / 484), max_steps being 484.
C33_OptimalReward ==
    (Started /\ size = RegisteredSize /\ agent_pos = goal_position) =>
        /\ step_count >= CommentSteps
        /\ step_count = CommentSteps =>
              /\ terminated
              /\ max_steps = CommentMaxSteps
              /\ reward * RewardDen(CommentMaxSteps)
                    = _reward(CommentSteps, CommentMaxSteps) * RewardDen(max_steps)

----------------------------------------------------------------------------
(* main_dqn.py: the truthful hint vector and the action set (Spec) *)

\* the action that moves the agent from the decision cell toward the Goal
TowardGoal == IF GoalRight THEN right ELSE left

\* C34: arrow_q_values has one entry per action of {left = 0, forward = 1,
\* right = 2, backward = 3}, and its single maximal entry is at the index of
\* the action that moves the agent from the decision cell toward the Goal
\* corner: the index of left when the Goal is left, of right when it is right.
C34_HintAtActionIndex ==
    Started =>
        /\ Len(arrow_q_values) = Cardinality(Actions)
        /\ \A i \in 1 .. Len(arrow_q_values) :
              i # TowardGoal + 1 =>
                 arrow_q_values[i] < arrow_q_values[TowardGoal + 1]

----------------------------------------------------------------------------
(* main.py: the hint of the observations of the rollout loop (SpecRollout) *)

\* the decision cell of the TMaze of main.py and the hint it is to report
MainDecisionCell == <<(MainSize - 1) \div 2, 1>>
MainGoalRight(e) == grid_get(e.grid, <<MainSize - 2, 1>>, MainSize) = "goal"
MainTruthfulHint(e) == IF MainGoalRight(e) THEN 1 ELSE 0

\* C35: in the TMaze of main.py, whenever the agent stands on the decision
\* cell the observation is produced without error and its hint is the single
\* number 1.0 when the Goal is in the right corner and 0.0 when it is in the
\* left corner.
C35_HintAtDecisionCell ==
    [][(pc = "rollout" /\ envs'.agent_pos = MainDecisionCell) =>
          /\ pc' # "raised"
          /\ full_obs_arrow' = MainTruthfulHint(envs')]_vars

\* C36: in the TMaze of main.py the hint reported away from the decision
\* cell is random noise over the hint's value range: both values 0 and 1 can
\* occur in observations taken away from the decision cell.
C36_HintNoiseOverRange ==
    (pc = "rollout" /\ envs.agent_pos # MainDecisionCell) =>
        /\ full_obs_arrow \in MainNoise
        /\ 0 \in MainNoise
        /\ 1 \in MainNoise

----------------------------------------------------------------------------
(* main_dqn.py: the exploration schedule and the training of the passes of
   the loop (SpecTrain).  Both read args and global_step only; the
   environment's part of a pass is that of SpecDqn and is left out here. *)

\* the longest run explored
TrainSteps == 12

\* start_e and end_e as the command line gives them (start_e >= end_e)
StartEnds ==
    {<<RInt(1), Fl(Rat(1, 20))>>, <<Fl(Rat(9, 10)), Fl(Rat(1, 10))>>,
     <<RInt(1), RInt(1)>>}

\* command lines explored
TrainArgs ==
    {[total_timesteps |-> tt, tau |-> tau, target_network_frequency |-> tnf,
      start_e |-> se[1], end_e |-> se[2], exploration_fraction |-> ef,
      learning_starts |-> ls, train_frequency |-> tf] :
        tt \in {TrainSteps - 4, TrainSteps}, tau \in {RInt(1), Rat(1, 2)},
        tnf \in {3, 5}, se \in StartEnds, ef \in {Rat(1, 2), Rat(1, 4)},
        ls \in {0, 3}, tf \in {1, 2, 4}}

\* at line 941, before the first pass
InitTrain ==
    /\ EnvIdle!1 /\ EnvIdle!2 /\ EnvIdle!3 /\ EnvIdle!4 /\ EnvIdle!5
    /\ EnvIdle!6 /\ EnvIdle!7 /\ EnvIdle!8 /\ EnvIdle!9 /\ EnvIdle!10
    /\ EnvIdle!11 /\ EnvIdle!12 /\ EnvIdle!13 /\ EnvIdle!14 /\ EnvIdle!15
    /\ twin = NoTwin
    /\ SeedIdle
    /\ MainIdle
    /\ \E a \in TrainArgs : dqn = [pc |-> "loop", args |-> a, global_step |-> 0]
    /\ rb = <<>>
    /\ epsilon = <<>>
    /\ q_state = FirstTrainState

\* one pass of the loop: epsilon (lines 943-948) and the training (lines
\* 1014-1050)
TrainPass ==
    /\ dqn.pc = "loop"
    /\ dqn.global_step < dqn.args.total_timesteps
    /\ epsilon' = Epsilon(dqn.args, dqn.global_step)
    /\ q_state' = Training(q_state, dqn.args, dqn.global_step)
    /\ dqn' = [dqn EXCEPT !.global_step = dqn.global_step + 1]
    /\ UNCHANGED <<envVars, rb, twin, mainVars, seedVars>>

\* the loop is over
TrainClose ==
    /\ dqn.pc = "loop"
    /\ dqn.global_step = dqn.args.total_timesteps
    /\ dqn' = [dqn EXCEPT !.pc = "closed"]
    /\ UNCHANGED <<envVars, rb, epsilon, q_state, twin, mainVars, seedVars>>

NextTrain == TrainPass \/ TrainClose

SpecTrain == InitTrain /\ [][NextTrain]_vars

\* the duration handed to linear_schedule, and the t of the pass made last
Duration == FMul(dqn.args.exploration_fraction, RInt(dqn.args.total_timesteps))
LastT == dqn.global_step - 1

\* epsilon has been computed by a pass
Scheduled == dqn.pc = "loop" /\ dqn.global_step > 0

\* start_e at t = 0, within [end_e, start_e] for every t
ScheduleInRange ==
    Scheduled =>
        /\ LastT = 0 => epsilon = dqn.args.start_e
        /\ RLeq(dqn.args.end_e, epsilon)
        /\ RLeq(epsilon, dqn.args.start_e)

\* non-increasing in t
ScheduleNonIncreasing ==
    (Scheduled /\ dqn'.pc = "loop") => RLeq(epsilon', epsilon)

\* C37 as stated: linear_schedule(start_e, end_e, duration, t) with
\* start_e >= end_e and duration > 0 returns start_e at t = 0, is
\* non-increasing in t, stays within [end_e, start_e] for every t >= 0, and
\* equals end_e for every t >= duration; in the loop the duration is
\* exploration_fraction * total_timesteps.
C37_EndFromDuration ==
    /\ [](ScheduleInRange
          /\ (Scheduled /\ RLeq(Duration, RInt(LastT)) =>
                 epsilon = dqn.args.end_e))
    /\ [][ScheduleNonIncreasing]_vars

\* the rounding error allowed at t = duration: four units in the last place
\* of start_e
RoundingSlack == RMul(dqn.args.start_e, Rat(4, 2 ^ Precision))

\* C37, amended: linear_schedule(start_e, end_e, duration, t) with
\* start_e >= end_e and duration > 0 returns start_e at t = 0, is
\* non-increasing in t, stays within [end_e, start_e] for every t >= 0, and
\* equals end_e for every t > duration; at t = duration it is end_e up to
\* the rounding of the floating-point operations (it may lie above end_e by
\* a few units in the last place of start_e); in the loop the duration is
\* exploration_fraction * total_timesteps.
C37_EndAfterDuration ==
    /\ [](ScheduleInRange
          /\ (Scheduled /\ RLeq(Duration, RInt(LastT)) =>
                 IF RInt(LastT) = Duration
                 THEN RLeq(RSub(epsilon, dqn.args.end_e), RoundingSlack)
                 ELSE epsilon = dqn.args.end_e))
    /\ [][ScheduleNonIncreasing]_vars

\* the pass of t = duration has left epsilon above end_e, with the default
\* start_e and end_e
C37_Witness ==
    /\ Scheduled
    /\ RInt(LastT) = Duration
    /\ dqn.args.start_e = RInt(1)
    /\ dqn.args.end_e = Fl(Rat(1, 20))
    /\ epsilon # dqn.args.end_e

\* a gradient step is due at global step g, the target parameters are due
\* to be replaced at g
TrainDue(a, g) == g > a.learning_starts /\ g % a.train_frequency = 0
ReplaceDue(a, g) == g > a.learning_starts /\ g % a.target_network_frequency = 0

\* C38: a gradient update of the online parameters happens at global step g
\* exactly when g > learning_starts and g is a multiple of train_frequency,
\* and the target parameters are replaced exactly when g > learning_starts
\* and g is a multiple of target_network_frequency; at every other step the
\* respective parameters are left unchanged, and with tau = 1 the target
\* parameters equal the online parameters right after each replacement.
C38_TrainingSchedule ==
    [][(dqn.pc = "loop" /\ dqn'.pc = "loop") =>
          LET a == dqn.args
              g == dqn.global_step
          IN  /\ IF TrainDue(a, g)
                 THEN q_state'.step = q_state.step + 1
                 ELSE /\ q_state'.step = q_state.step
                      /\ q_state'.params = q_state.params
              /\ IF ReplaceDue(a, g)
                 THEN /\ q_state'.target_params =
                            incremental_update(q_state'.params,
                                               q_state.target_params, a.tau)
                      /\ a.tau = RInt(1) =>
                            q_state'.target_params = q_state'.params
                 ELSE q_state'.target_params = q_state.target_params]_vars

\* with tau = 1, the target parameters have been replaced after gradient
\* steps and a later gradient step has left them behind the online ones
C38_Witness ==
    /\ dqn.pc = "loop"
    /\ dqn.args.tau = RInt(1)
    /\ dqn.args.learning_starts > 0
    /\ q_state.step >= 2
    /\ q_state.target_params # RInt(0)
    /\ q_state.target_params # q_state.params

====
